---- MODULE Spec2Model ----
(***************************************************************************)
(* LoadSpiker: the Python engine (loadspiker/engine.py), the data          *)
(* distributor (loadspiker/data_sources.py), the session manager           *)
(* (loadspiker/session_manager.py) and the scenario compiler               *)
(* (loadspiker/scenarios.py) as state machines.                            *)
(*                                                                         *)
(* The module holds several specifications over one set of variables:      *)
(*   SpecEngine    one thread calling the engine's protocol operations     *)
(*   SpecConc      run_custom_test: worker threads recording outcomes      *)
(*   SpecData      DataDistributor.get_data_for_user                       *)
(*   SpecScenario  a virtual user running a compiled scenario              *)
(* Each specification leaves the variables of the others unchanged.        *)
(***************************************************************************)
EXTENDS Integers, Sequences, FiniteSets, TLC

VARIABLES
    metrics,        \* _PythonEngine._metrics
    tcp_sockets,    \* keys of _PythonEngine._tcp_sockets
    udp_sockets,    \* keys of _PythonEngine._udp_sockets
    last,           \* the dict returned by the latest call of the engine
    tcp_hist,       \* history: per key, what the TCP outcomes so far imply
    udp_hist,       \* history: per key, what the UDP outcomes so far imply
    main_pc,        \* run_custom_test: where the calling thread is
    expired,        \* run_custom_test: time.time() has reached end_time
    wpc,            \* per worker thread: where it is
    wtmp,           \* per worker thread: the counter value it loaded for a +=
    wok,            \* per worker thread: the outcome it is recording
    witer,          \* per worker thread: iterations begun
    wraised,        \* history: per worker thread, the iterations its test_func raised in
    strategy,       \* DataDistributor.strategy
    data,           \* DataDistributor.data_source.data (rows, 1-based here)
    current_index,  \* DataDistributor.current_index
    used_indices,   \* DataDistributor.used_indices
    dlock,          \* DataDistributor.lock: "free" or the thread holding it
    dpc,            \* per calling thread: where it is in get_data_for_user
    duser,          \* per calling thread: the user_id argument
    dindex,         \* per calling thread: the local variable index
    served,         \* history: the calls that returned or raised, in order
    variables,      \* Scenario.variables
    requests,       \* Scenario.requests: the header templates of the operations
    compiled,       \* per virtual user: the list build_requests returned
    vu_pos,         \* per virtual user: operations of the list already sent
    sess_vars,      \* per user: SessionStore._data
    sess_cookies,   \* per user: SessionStore._cookies
    response,       \* per virtual user: the dict its latest HTTP call returned
    last_sent,      \* history: per virtual user, its latest request as sent
    sources,        \* names of Scenario.data_manager.data_sources
    compiled_for,   \* history: per virtual user, the user_id and row its list was built with
    tcp_open,       \* per key: the connected TCP sockets not yet closed
    udp_open,       \* per key: the UDP sockets not yet closed
    tcp_owner,      \* history: per key, the worker whose call registered the socket
    udp_owner,      \* history: per key, the worker whose call registered the endpoint
    caller,         \* history: the worker thread that made the latest engine call
    now,            \* time.time(), in ticks since the start of the run
    rpc,            \* _run_with_ramp_up: where the calling thread is
    ramp,           \* _run_with_ramp_up: target_users, ramp_up_duration, duration
    tested_at,      \* history: the clock value the latest while test read
    current_users,  \* _run_with_ramp_up: the local variable current_users
    bursts,         \* history: the start_load_test calls of the ramp, in order
    sessions,       \* SessionManager._sessions: str(user_id) -> SessionStore
    last_cleanup,   \* SessionManager._last_cleanup
    sret,           \* history: the latest call on the session manager or a store, and what it returned
    nticks,         \* history: how many times the clock has been advanced
    ncalls,         \* history: how many session calls have been made
    given,          \* the assertion or assertion group under check, and what it is checked against
    verdict,        \* history: what the check returned, and what it evaluated and recorded
    flows,          \* AuthenticationManager.flows: the names registered
    hooks,          \* Scenario.setup_func / teardown_func: whether each is set
    hook_log        \* history: the hook calls made, in order, with the user_id compiled for

engineVars == <<metrics, tcp_sockets, udp_sockets, last, tcp_hist, udp_hist>>

concVars == <<main_pc, expired, wpc, wtmp, wok, witer, wraised>>

dataVars == <<strategy, data, current_index, used_indices, dlock, dpc, duser, dindex, served>>

scenVars == <<variables, requests, compiled, vu_pos, sess_vars, sess_cookies, response, last_sent,
              sources, compiled_for, hooks, hook_log>>

handleVars == <<tcp_open, udp_open, tcp_owner, udp_owner, caller>>

rampVars == <<now, rpc, ramp, tested_at, current_users, bursts>>

\* the variables outside the four groups above and the handle history
sessVars == <<sessions, last_cleanup, sret, nticks, ncalls, flows>>

\* the assertion under check
assertVars == <<given, verdict>>

restVars == <<rampVars, sessVars, assertVars>>

vars == <<engineVars, concVars, dataVars, scenVars, handleVars, restVars>>

\* What the actions of one specification leave alone
nonEngineVars == <<concVars, dataVars, scenVars, restVars>>
nonConcVars == <<dataVars, scenVars, handleVars, restVars>>
nonDataVars == <<engineVars, concVars, scenVars, handleVars, restVars>>
nonScenVars == <<engineVars, concVars, dataVars, handleVars, restVars>>

(***************************************************************************)
(* Bounds                                                                  *)
(***************************************************************************)
MaxOps == 3         \* total_requests is capped (guards of the operations)
MaxIters == 2       \* iterations a worker of run_custom_test begins
MaxRows == 2        \* rows of the data source: 0..MaxRows
MaxCalls == 3       \* calls of get_data_for_user
MaxScOps == 2       \* operations of the scenario
MaxHttp == 2        \* HTTP calls the virtual users make in all
MaxTarget == 2      \* target_users of a ramped run: 1..MaxTarget
MaxClock == 4       \* ticks the clock of a ramped run advances
MaxTicks == 3       \* times the clock advances between session calls
MaxSessCalls == 3   \* session calls of one script
MaxMembers == 3     \* member assertions of a group
MaxChecks == 2      \* check_all_metrics calls on one group
MaxHooks == 3       \* hook calls of one run

\* Inputs: the host:port keys the caller uses, the response times (ms) measured
Keys == {"h1:7", "h2:7"}
RTs == {1, 2}
\* run_custom_test(users=2): the user ids of range(users)
Users == {0, 1}
\* the user_id arguments of get_data_for_user, and the threads calling it
UserIds == {0, 1, 2, 3, 5}
DThreads == {"A", "B"}

(***************************************************************************)
(* Metrics (engine.py: _PythonEngine.__init__, the updates in every        *)
(* operation, get_metrics, reset_metrics)                                  *)
(***************************************************************************)
ZeroMetrics ==
    [ total_requests |-> 0,
      successful_requests |-> 0,
      failed_requests |-> 0,
      total_response_time_ms |-> 0,
      min_response_time_ms |-> 0,
      max_response_time_ms |-> 0,
      requests_per_second |-> 0 ]

\* self._metrics['total_requests'] += 1; self._metrics['successful_requests'] += 1
RecordSuccess(m) ==
    [m EXCEPT !.total_requests = @ + 1, !.successful_requests = @ + 1]

\* Mutant of RecordFailure: the except block forgets failed_requests
RecordFailure_TotalOnly(m) ==
    [m EXCEPT !.total_requests = @ + 1]

\* self._metrics['total_requests'] += 1; self._metrics['failed_requests'] += 1
RecordFailure(m) ==
    [m EXCEPT !.total_requests = @ + 1, !.failed_requests = @ + 1]

\* execute_request, lines 138-149: the only place that records a response time
RecordHttp(m, status_code, rt) ==
    [m EXCEPT
        !.total_requests = @ + 1,
        !.successful_requests = IF status_code < 400 THEN @ + 1 ELSE @,
        !.failed_requests = IF status_code < 400 THEN @ ELSE @ + 1,
        !.total_response_time_ms = @ + rt,
        !.min_response_time_ms = IF @ = 0 \/ rt < @ THEN rt ELSE @,
        !.max_response_time_ms = IF rt > @ THEN rt ELSE @]

(***************************************************************************)
(* Outcomes.  error is the category of error_message:                      *)
(*   "no_connection"  'No active TCP connection ...'      (status 400)     *)
(*   "no_endpoint"    'No UDP endpoint ...'               (status 400)     *)
(*   "exception"      '<op> failed: <exception>'          (status 500 / 0) *)
(*   "http_error"     'HTTP <status>'                                      *)
(* pre is the history of the key before the call ("" when the operation    *)
(* has no key).                                                            *)
(***************************************************************************)
Statuses == {200, 404}

Outcome(op, key, success, status_code, error, pre) ==
    [ op |-> op, key |-> key, success |-> success,
      status_code |-> status_code, error |-> error, pre |-> pre ]

NoOutcome == Outcome("none", "", TRUE, 0, "", "")

\* History of a TCP key, read off the outcomes alone: "connected" after a
\* successful tcp_connect, "disconnected" after a successful tcp_disconnect.
TcpHistAfter(h, op, key, success) ==
    IF op = "tcp_connect" /\ success THEN [h EXCEPT ![key] = "connected"]
    ELSE IF op = "tcp_disconnect" /\ success THEN [h EXCEPT ![key] = "disconnected"]
    ELSE h

\* History of a UDP key: "closed" after a successful udp_close_endpoint,
\* "created" after a successful udp_create_endpoint, "sent" after a udp_send
\* that got as far as sending (it did not return the creation's failure).
UdpHistAfter(h, op, key, success, error) ==
    IF op = "udp_create_endpoint" /\ success THEN [h EXCEPT ![key] = "created"]
    ELSE IF op = "udp_close_endpoint" /\ success THEN [h EXCEPT ![key] = "closed"]
    ELSE IF op = "udp_send" /\ error # "create_failed" THEN [h EXCEPT ![key] = "sent"]
    ELSE h

\* no worker: the caller of an operation made outside run_custom_test
NoWorker == -1

InitEngine ==
    /\ metrics = ZeroMetrics
    /\ tcp_sockets = {}
    /\ udp_sockets = {}
    /\ last = NoOutcome
    /\ tcp_hist = [k \in Keys |-> "never"]
    /\ udp_hist = [k \in Keys |-> "never"]
    /\ tcp_open = [k \in Keys |-> 0]
    /\ udp_open = [k \in Keys |-> 0]
    /\ tcp_owner = [k \in Keys |-> NoWorker]
    /\ udp_owner = [k \in Keys |-> NoWorker]
    /\ caller = NoWorker

\* The counters are unbounded in the code; the model stops calling at MaxOps.
CanCall == metrics.total_requests < MaxOps

(***************************************************************************)
(* HTTP                                                                    *)
(***************************************************************************)
\* _PythonEngine.execute_request: a response arrives (any status), or
\* requests raises (refused, timeout, bad URL).
execute_request ==
    /\ CanCall
    /\ \/ \E status_code \in Statuses, rt \in RTs :
            /\ metrics' = RecordHttp(metrics, status_code, rt)
            /\ last' = Outcome("execute_request", "", status_code < 400, status_code,
                               IF status_code < 400 THEN "" ELSE "http_error", "")
       \/ /\ metrics' = RecordFailure(metrics)
          /\ last' = Outcome("execute_request", "", FALSE, 0, "exception", "")
    /\ UNCHANGED <<tcp_sockets, udp_sockets, tcp_hist, udp_hist>>
    /\ UNCHANGED nonEngineVars

(***************************************************************************)
(* TCP                                                                     *)
(***************************************************************************)
\* The registry after a successful tcp_connect: self._tcp_sockets[key] = sock
TcpRegister(socks, key) == socks \cup {key}

\* Mutant of TcpUnregister: tcp_disconnect closes the socket but keeps the entry
TcpUnregister_Keep(socks, key) == socks

\* The registry after tcp_disconnect: del self._tcp_sockets[socket_key]
TcpUnregister(socks, key) == socks \ {key}

TcpFinish(op, key, success, status_code, error) ==
    /\ last' = Outcome(op, key, success, status_code, error, tcp_hist[key])
    /\ tcp_hist' = TcpHistAfter(tcp_hist, op, key, success)
    /\ UNCHANGED <<udp_sockets, udp_hist>>
    /\ UNCHANGED nonEngineVars

tcp_connect(key) ==
    /\ CanCall
    /\ \/ /\ tcp_sockets' = TcpRegister(tcp_sockets, key)
          /\ metrics' = RecordSuccess(metrics)
          /\ TcpFinish("tcp_connect", key, TRUE, 200, "")
       \/ /\ tcp_sockets' = tcp_sockets
          /\ metrics' = RecordFailure(metrics)
          /\ TcpFinish("tcp_connect", key, FALSE, 500, "exception")

\* tcp_send and tcp_receive: the same code around sock.send / sock.recv
TcpTransfer(op, key) ==
    /\ CanCall
    /\ tcp_sockets' = tcp_sockets
    /\ IF key \notin tcp_sockets
       THEN /\ metrics' = metrics
            /\ TcpFinish(op, key, FALSE, 400, "no_connection")
       ELSE \/ /\ metrics' = RecordSuccess(metrics)
               /\ TcpFinish(op, key, TRUE, 200, "")
            \/ /\ metrics' = RecordFailure(metrics)
               /\ TcpFinish(op, key, FALSE, 500, "exception")

tcp_send(key) == TcpTransfer("tcp_send", key)

tcp_receive(key) == TcpTransfer("tcp_receive", key)

tcp_disconnect(key) ==
    /\ CanCall
    /\ IF key \notin tcp_sockets
       THEN /\ metrics' = metrics
            /\ tcp_sockets' = tcp_sockets
            /\ TcpFinish("tcp_disconnect", key, FALSE, 400, "no_connection")
       ELSE \/ /\ tcp_sockets' = TcpUnregister(tcp_sockets, key)
               /\ metrics' = RecordSuccess(metrics)
               /\ TcpFinish("tcp_disconnect", key, TRUE, 200, "")
            \/ \* sock.close() raises: the del is not reached
               /\ tcp_sockets' = tcp_sockets
               /\ metrics' = RecordFailure(metrics)
               /\ TcpFinish("tcp_disconnect", key, FALSE, 500, "exception")

(***************************************************************************)
(* UDP                                                                     *)
(***************************************************************************)
\* self._udp_sockets[key] = sock
UdpRegister(socks, key) == socks \cup {key}

\* Mutant of UdpUnregister: udp_close_endpoint keeps the entry
UdpUnregister_Keep(socks, key) == socks

\* del self._udp_sockets[socket_key]
UdpUnregister(socks, key) == socks \ {key}

UdpFinish(op, key, success, status_code, error) ==
    /\ last' = Outcome(op, key, success, status_code, error, udp_hist[key])
    /\ udp_hist' = UdpHistAfter(udp_hist, op, key, success, error)
    /\ UNCHANGED <<tcp_sockets, tcp_hist>>
    /\ UNCHANGED nonEngineVars

udp_create_endpoint(key) ==
    /\ CanCall
    /\ \/ /\ udp_sockets' = UdpRegister(udp_sockets, key)
          /\ metrics' = RecordSuccess(metrics)
          /\ UdpFinish("udp_create_endpoint", key, TRUE, 200, "")
       \/ \* socket.socket() raises
          /\ udp_sockets' = udp_sockets
          /\ metrics' = RecordFailure(metrics)
          /\ UdpFinish("udp_create_endpoint", key, FALSE, 500, "exception")

\* udp_send: on a key without an endpoint it first calls udp_create_endpoint,
\* which records its own outcome in the metrics; then it sends and records again.
udp_send(key) ==
    /\ CanCall
    /\ IF key \in udp_sockets
       THEN /\ udp_sockets' = udp_sockets
            /\ \/ /\ metrics' = RecordSuccess(metrics)
                  /\ UdpFinish("udp_send", key, TRUE, 200, "")
               \/ /\ metrics' = RecordFailure(metrics)
                  /\ UdpFinish("udp_send", key, FALSE, 500, "exception")
       ELSE \/ \* the endpoint is created, the datagram is sent
               /\ udp_sockets' = UdpRegister(udp_sockets, key)
               /\ metrics' = RecordSuccess(RecordSuccess(metrics))
               /\ UdpFinish("udp_send", key, TRUE, 200, "")
            \/ \* the endpoint is created, sendto raises
               /\ udp_sockets' = UdpRegister(udp_sockets, key)
               /\ metrics' = RecordFailure(RecordSuccess(metrics))
               /\ UdpFinish("udp_send", key, FALSE, 500, "exception")
            \/ \* the creation fails: its outcome is returned
               /\ udp_sockets' = udp_sockets
               /\ metrics' = RecordFailure(metrics)
               /\ UdpFinish("udp_send", key, FALSE, 500, "create_failed")

udp_receive(key) ==
    /\ CanCall
    /\ udp_sockets' = udp_sockets
    /\ IF key \notin udp_sockets
       THEN /\ metrics' = metrics
            /\ UdpFinish("udp_receive", key, FALSE, 400, "no_endpoint")
       ELSE \/ /\ metrics' = RecordSuccess(metrics)
               /\ UdpFinish("udp_receive", key, TRUE, 200, "")
            \/ \* recvfrom times out or raises
               /\ metrics' = RecordFailure(metrics)
               /\ UdpFinish("udp_receive", key, FALSE, 500, "exception")

udp_close_endpoint(key) ==
    /\ CanCall
    /\ IF key \notin udp_sockets
       THEN /\ metrics' = metrics
            /\ udp_sockets' = udp_sockets
            /\ UdpFinish("udp_close_endpoint", key, FALSE, 400, "no_endpoint")
       ELSE \/ /\ udp_sockets' = UdpUnregister(udp_sockets, key)
               /\ metrics' = RecordSuccess(metrics)
               /\ UdpFinish("udp_close_endpoint", key, TRUE, 200, "")
            \/ \* sock.close() raises: the del is not reached
               /\ udp_sockets' = udp_sockets
               /\ metrics' = RecordFailure(metrics)
               /\ UdpFinish("udp_close_endpoint", key, FALSE, 500, "exception")

(***************************************************************************)
(* MQTT: the fallback simulates every operation and records a success.     *)
(***************************************************************************)
MqttOps == {"mqtt_connect", "mqtt_publish", "mqtt_subscribe",
            "mqtt_unsubscribe", "mqtt_disconnect"}

mqtt_op(op) ==
    /\ CanCall
    /\ metrics' = RecordSuccess(metrics)
    /\ last' = Outcome(op, "", TRUE, 200, "", "")
    /\ UNCHANGED <<tcp_sockets, udp_sockets, tcp_hist, udp_hist>>
    /\ UNCHANGED nonEngineVars

(***************************************************************************)
(* get_metrics / reset_metrics                                             *)
(***************************************************************************)
\* return self._metrics.copy()
Snapshot(m) == [op |-> "get_metrics", metrics |-> m]

get_metrics ==
    /\ last' = Snapshot(metrics)
    /\ UNCHANGED <<metrics, tcp_sockets, udp_sockets, tcp_hist, udp_hist>>
    /\ UNCHANGED nonEngineVars

\* reset_metrics with the response-time extremes left as they were
ResetValue_KeepExtremes(m) ==
    [ZeroMetrics EXCEPT !.min_response_time_ms = m.min_response_time_ms,
                        !.max_response_time_ms = m.max_response_time_ms]

\* the dict reset_metrics assigns to self._metrics
ResetValue(m) == ZeroMetrics

reset_metrics ==
    /\ metrics' = ResetValue(metrics)
    /\ last' = [op |-> "reset_metrics"]
    /\ UNCHANGED <<tcp_sockets, udp_sockets, tcp_hist, udp_hist>>
    /\ UNCHANGED nonEngineVars

NextEngine ==
    \/ execute_request /\ UNCHANGED handleVars
    \/ \E key \in Keys : tcp_connect(key) /\ UNCHANGED handleVars
    \/ \E key \in Keys : tcp_send(key) /\ UNCHANGED handleVars
    \/ \E key \in Keys : tcp_receive(key) /\ UNCHANGED handleVars
    \/ \E key \in Keys : tcp_disconnect(key) /\ UNCHANGED handleVars
    \/ \E key \in Keys : udp_create_endpoint(key) /\ UNCHANGED handleVars
    \/ \E key \in Keys : udp_send(key) /\ UNCHANGED handleVars
    \/ \E key \in Keys : udp_receive(key) /\ UNCHANGED handleVars
    \/ \E key \in Keys : udp_close_endpoint(key) /\ UNCHANGED handleVars
    \/ \E op \in MqttOps : mqtt_op(op) /\ UNCHANGED handleVars
    \/ get_metrics /\ UNCHANGED handleVars
    \/ reset_metrics /\ UNCHANGED handleVars

\* _run_with_ramp_up is not running
NoRamp == [target_users |-> 0, ramp_up_duration |-> 0, duration |-> 0]

IdleRamp ==
    /\ rpc = "idle"
    /\ ramp = NoRamp
    /\ tested_at = 0
    /\ current_users = 0
    /\ bursts = <<>>

\* no session call has been made
NoCall == [op |-> "none"]

\* a SessionManager just constructed
IdleSess ==
    /\ sessions = << >>
    /\ last_cleanup = 0
    /\ sret = NoCall
    /\ nticks = 0
    /\ ncalls = 0
    /\ flows = {}

\* no assertion is under check
NoCheck == [op |-> "none"]

IdleAssert ==
    /\ given = NoCheck
    /\ verdict = NoCheck

IdleRest ==
    /\ now = 0
    /\ IdleRamp
    /\ IdleSess
    /\ IdleAssert

\* The variables of run_custom_test when no run is in progress
IdleConc ==
    /\ main_pc = "idle"
    /\ expired = FALSE
    /\ wpc = [t \in Users |-> "unborn"]
    /\ wtmp = [t \in Users |-> 0]
    /\ wok = [t \in Users |-> TRUE]
    /\ witer = [t \in Users |-> 0]
    /\ wraised = [t \in Users |-> {}]

\* csv rows as _process_row leaves them: '_row_number' makes each row distinct
Rows(n) == [i \in 1..n |-> [id |-> i % 2, _row_number |-> i]]

\* A distributor nobody calls
IdleData ==
    /\ strategy = "sequential"
    /\ data = Rows(1)
    /\ current_index = 0
    /\ used_indices = {}
    /\ dlock = "free"
    /\ dpc = [t \in DThreads |-> "idle"]
    /\ duser = [t \in DThreads |-> 0]
    /\ dindex = [t \in DThreads |-> 0]
    /\ served = <<>>

(***************************************************************************)
(* Scenario and session state.  A text (header value) is a sequence of     *)
(* pieces: a literal chunk, or a placeholder "${name}".  A Cookie header   *)
(* is the sequence of its name=value parts.  Unset stands for a key a dict *)
(* does not hold (dict.get(...) returning None).                           *)
(***************************************************************************)
Unset == "<unset>"
VUs == {0, 1}
\* values: the token a server puts in a body, the sid it sets, and the value
\* a script gives a scenario variable
ServerTokens == {"TTT"}
CookieVals == {"XYZ"}
ScriptVals == {"UUU"}
VarNames == {"tok"}
SessKeys == {"tok", "authenticated", "auth_type", "username", "login_url"}
CookieNames == <<"sid">>

Lit(s) == [kind |-> "lit", s |-> s]
Ph(name) == [kind |-> "ph", s |-> name]

\* No HTTP call made yet / no request sent yet
\* status_code: 0 when the call raised; body: the JSON object's "token" member;
\* set_cookie: the value v of a 'Set-Cookie: sid=v' response header
NoResponse == [status_code |-> 0, body |-> [token |-> Unset], set_cookie |-> Unset]
\* headers as sent, and what the user's session and previous response held then
NoRequest == [via |-> "none", index |-> 0, headers |-> <<>>,
              session_tok |-> Unset, prev_set_cookie |-> Unset]

\* The Authorization header templates a scenario operation may carry
AuthTemplates == {<<Lit("Bearer "), Ph("tok")>>, <<Lit("Basic abc")>>}

\* HTTPRequest(url, headers={'Authorization': auth})
HTTPRequest(url, auth) == [url |-> url, headers |-> [Authorization |-> auth]]

\* the value None of a data field, and the dotted names split('.', 1) splits
NoneValue == "<None>"
DotSplit ==
    [n \in {"users.id", "users.name", "users.zip", "other.id"} |->
        CASE n = "users.id" -> <<"users", "id">>
          [] n = "users.name" -> <<"users", "name">>
          [] n = "users.zip" -> <<"users", "zip">>
          [] n = "other.id" -> <<"other", "id">>]

\* setup_func = None, teardown_func = None
NoHooks == [setup |-> FALSE, teardown |-> FALSE]

\* if self.setup_func: self.setup_func(self), at the start of build_requests(user_id)
AfterSetup(log, user_id) ==
    IF hooks.setup THEN Append(log, [hook |-> "setup", user_id |-> user_id]) ELSE log

\* build_requests not called yet
NotCompiled == [user_id |-> -1, index |-> -1]

\* A scenario nobody runs
IdleScen ==
    /\ variables = [n \in VarNames |-> Unset]
    /\ requests = [i \in 1..MaxScOps |-> HTTPRequest(<<Lit("/me")>>, <<Lit("Basic abc")>>)]
    /\ compiled = [u \in VUs |-> <<>>]
    /\ vu_pos = [u \in VUs |-> 0]
    /\ sess_vars = [u \in VUs |-> [n \in SessKeys |-> Unset]]
    /\ sess_cookies = [u \in VUs |-> [i \in 1..Len(CookieNames) |-> Unset]]
    /\ response = [u \in VUs |-> NoResponse]
    /\ last_sent = [u \in VUs |-> NoRequest]
    /\ sources = {}
    /\ compiled_for = [u \in VUs |-> NotCompiled]
    /\ hooks = NoHooks
    /\ hook_log = << >>

InitEngineSpec ==
    /\ InitEngine
    /\ IdleConc
    /\ IdleRest
    /\ IdleData
    /\ IdleScen

SpecEngine == InitEngineSpec /\ [][NextEngine]_vars

(***************************************************************************)
(* Properties of the engine (one calling thread)                           *)
(***************************************************************************)
Balanced(m) == m.total_requests = m.successful_requests + m.failed_requests

\* min <= total_response_time / total_requests <= max, without division
MeanWithinMinMax(m) ==
    /\ m.min_response_time_ms * m.total_requests <= m.total_response_time_ms
    /\ m.total_response_time_ms <= m.max_response_time_ms * m.total_requests

\* C1: after any sequence of completed operations of one thread, the dict
\* get_metrics() returns has total_requests = successful_requests + failed_requests.
C1_SnapshotBalanced ==
    last.op = "get_metrics" => Balanced(last.metrics)

\* C1 witness: a snapshot taken after successes and failures were recorded
C1_Witness ==
    /\ last.op = "get_metrics"
    /\ last.metrics.successful_requests >= 1
    /\ last.metrics.failed_requests >= 2

\* C3: whenever a snapshot has total_requests > 0, the mean response time lies
\* between min_response_time and max_response_time.
C3_MeanWithinMinMax ==
    (last.op = "get_metrics" /\ last.metrics.total_requests > 0)
        => MeanWithinMinMax(last.metrics)

TcpKeyedOps == {"tcp_send", "tcp_receive", "tcp_disconnect"}

NoConnection(o) == ~o.success /\ o.error = "no_connection"

NoEndpoint(o) == ~o.success /\ o.error = "no_endpoint"

\* C4: tcp_send, tcp_receive and tcp_disconnect answer with the no-connection
\* error exactly when no tcp_connect on the key has succeeded since the start
\* or since the last successful tcp_disconnect on it.
C4_NoConnectionIff ==
    last.op \in TcpKeyedOps => (NoConnection(last) <=> last.pre # "connected")

\* C4 witness: a tcp_send after a successful tcp_disconnect, refused
C4_Witness ==
    /\ last.op = "tcp_send"
    /\ last.pre = "disconnected"
    /\ NoConnection(last)

\* C5 (as claimed): after a successful udp_close_endpoint the next udp_send,
\* udp_receive or udp_close_endpoint on the key, with no udp_create_endpoint in
\* between, answers with the no-endpoint error; so does a udp_receive on a
\* key that never had an endpoint.
C5_Original ==
    /\ (last.op \in {"udp_send", "udp_receive", "udp_close_endpoint"}
            /\ last.pre = "closed") => NoEndpoint(last)
    /\ (last.op = "udp_receive" /\ last.pre = "never") => NoEndpoint(last)

\* C5 (amended): after a successful udp_close_endpoint the next udp_receive or
\* udp_close_endpoint on the key, with no udp_create_endpoint and no udp_send
\* in between, answers with the no-endpoint error; so does a udp_receive on a
\* key that never had an endpoint.  A udp_send on such a key never answers
\* with the no-endpoint error: it creates the endpoint itself.
C5_Amended ==
    /\ (last.op \in {"udp_receive", "udp_close_endpoint"}
            /\ last.pre = "closed") => NoEndpoint(last)
    /\ (last.op = "udp_receive" /\ last.pre = "never") => NoEndpoint(last)
    /\ (last.op = "udp_send" /\ last.pre \in {"closed", "never"})
            => ~NoEndpoint(last)

\* C5 witness: a udp_receive right after a successful udp_close_endpoint
C5_Witness ==
    /\ last.op = "udp_receive"
    /\ last.pre = "closed"
    /\ NoEndpoint(last)

(***************************************************************************)
(* Engine.run_custom_test: users worker threads share the engine and its   *)
(* metrics dict; nothing locks it.  A statement d[k] += 1 is a load of     *)
(* d[k] and a later store of the sum; another thread can run in between.   *)
(* The test function of an iteration calls one engine operation that       *)
(* records a success (say mqtt_publish) or a failure (say a refused        *)
(* tcp_connect), or calls get_metrics(), or raises.                        *)
(***************************************************************************)
InitConc ==
    /\ InitEngine
    /\ IdleConc
    /\ IdleRest
    /\ IdleData
    /\ IdleScen

\* self.reset_metrics(); end_time = ...; the threads are started
RunStart ==
    /\ main_pc = "idle"
    /\ metrics' = ZeroMetrics
    /\ main_pc' = "running"
    /\ wpc' = [t \in Users |-> "loop"]
    /\ UNCHANGED <<expired, wtmp, wok, witer, wraised, tcp_sockets, udp_sockets, last, tcp_hist, udp_hist>>
    /\ UNCHANGED nonConcVars

\* the clock reaches end_time
DeadlinePasses ==
    /\ main_pc = "running"
    /\ ~expired
    /\ expired' = TRUE
    /\ UNCHANGED <<main_pc, wpc, wtmp, wok, witer, wraised, engineVars>>
    /\ UNCHANGED nonConcVars

\* while True: the loop test forgets the deadline
WorkerLoop_NoDeadline(t) ==
    /\ wpc[t] = "loop"
    /\ witer[t] < MaxIters
    /\ wpc' = [wpc EXCEPT ![t] = "call"]
    /\ witer' = [witer EXCEPT ![t] = @ + 1]
    /\ UNCHANGED <<main_pc, expired, wtmp, wok, wraised, engineVars>>
    /\ UNCHANGED nonConcVars

\* while time.time() < end_time:
WorkerLoop(t) ==
    /\ wpc[t] = "loop"
    /\ IF expired
       THEN /\ wpc' = [wpc EXCEPT ![t] = "done"]
            /\ witer' = witer
       ELSE /\ witer[t] < MaxIters
            /\ wpc' = [wpc EXCEPT ![t] = "call"]
            /\ witer' = [witer EXCEPT ![t] = @ + 1]
    /\ UNCHANGED <<main_pc, expired, wtmp, wok, wraised, engineVars>>
    /\ UNCHANGED nonConcVars

\* test_func calls an engine operation; its outcome is about to be recorded
WorkerCallOp(t) ==
    /\ wpc[t] = "call"
    /\ \E ok \in BOOLEAN : wok' = [wok EXCEPT ![t] = ok]
    /\ wpc' = [wpc EXCEPT ![t] = "load_total"]
    /\ UNCHANGED <<main_pc, expired, wtmp, witer, wraised, engineVars>>
    /\ UNCHANGED nonConcVars

\* test_func calls engine.get_metrics(): dict.copy() is one step
WorkerCallGetMetrics(t) ==
    /\ wpc[t] = "call"
    /\ last' = Snapshot(metrics)
    /\ wpc' = [wpc EXCEPT ![t] = "sleep"]
    /\ UNCHANGED <<main_pc, expired, wtmp, wok, witer, wraised, metrics, tcp_sockets, udp_sockets, tcp_hist, udp_hist>>
    /\ UNCHANGED nonConcVars

\* test_func raises and nothing catches it: the thread ends
WorkerRaise_Dies(t) ==
    /\ wpc[t] = "call"
    /\ wpc' = [wpc EXCEPT ![t] = "done"]
    /\ wraised' = [wraised EXCEPT ![t] = @ \cup {witer[t]}]
    /\ UNCHANGED <<main_pc, expired, wtmp, wok, witer, engineVars>>
    /\ UNCHANGED nonConcVars

\* test_func raises: except Exception prints and the loop goes on
WorkerRaise(t) ==
    /\ wpc[t] = "call"
    /\ wpc' = [wpc EXCEPT ![t] = "sleep"]
    /\ wraised' = [wraised EXCEPT ![t] = @ \cup {witer[t]}]
    /\ UNCHANGED <<main_pc, expired, wtmp, wok, witer, engineVars>>
    /\ UNCHANGED nonConcVars

\* The counter an outcome bumps after total_requests
CounterOf(ok) == IF ok THEN "successful_requests" ELSE "failed_requests"

\* self._metrics['total_requests'] += 1, the load
LoadTotal(t) ==
    /\ wpc[t] = "load_total"
    /\ wtmp' = [wtmp EXCEPT ![t] = metrics.total_requests]
    /\ wpc' = [wpc EXCEPT ![t] = "store_total"]
    /\ UNCHANGED <<main_pc, expired, wok, witer, wraised, engineVars>>
    /\ UNCHANGED nonConcVars

\* self._metrics['total_requests'] += 1, the store
StoreTotal(t) ==
    /\ wpc[t] = "store_total"
    /\ metrics' = [metrics EXCEPT !.total_requests = wtmp[t] + 1]
    /\ wpc' = [wpc EXCEPT ![t] = "load_counter"]
    /\ UNCHANGED <<main_pc, expired, wtmp, wok, witer, wraised, tcp_sockets, udp_sockets, last, tcp_hist, udp_hist>>
    /\ UNCHANGED nonConcVars

\* self._metrics['successful_requests' or 'failed_requests'] += 1, the load
LoadCounter(t) ==
    /\ wpc[t] = "load_counter"
    /\ wtmp' = [wtmp EXCEPT ![t] = metrics[CounterOf(wok[t])]]
    /\ wpc' = [wpc EXCEPT ![t] = "store_counter"]
    /\ UNCHANGED <<main_pc, expired, wok, witer, wraised, engineVars>>
    /\ UNCHANGED nonConcVars

\* ... the store; the operation returns to test_func, which returns
StoreCounter(t) ==
    /\ wpc[t] = "store_counter"
    /\ metrics' = [metrics EXCEPT ![CounterOf(wok[t])] = wtmp[t] + 1]
    /\ wpc' = [wpc EXCEPT ![t] = "sleep"]
    /\ UNCHANGED <<main_pc, expired, wtmp, wok, witer, wraised, tcp_sockets, udp_sockets, last, tcp_hist, udp_hist>>
    /\ UNCHANGED nonConcVars

\* time.sleep(0.1)
WorkerSleep(t) ==
    /\ wpc[t] = "sleep"
    /\ wpc' = [wpc EXCEPT ![t] = "loop"]
    /\ UNCHANGED <<main_pc, expired, wtmp, wok, witer, wraised, engineVars>>
    /\ UNCHANGED nonConcVars

\* every thread.join() has returned: return self.get_metrics()
RunReturn ==
    /\ main_pc = "running"
    /\ \A t \in Users : wpc[t] = "done"
    /\ main_pc' = "returned"
    /\ last' = Snapshot(metrics)
    /\ UNCHANGED <<expired, wpc, wtmp, wok, witer, wraised, metrics, tcp_sockets, udp_sockets, tcp_hist, udp_hist>>
    /\ UNCHANGED nonConcVars

NextConc ==
    \/ RunStart
    \/ DeadlinePasses
    \/ \E t \in Users : WorkerLoop(t)
    \/ \E t \in Users : WorkerCallOp(t)
    \/ \E t \in Users : WorkerCallGetMetrics(t)
    \/ \E t \in Users : WorkerRaise(t)
    \/ \E t \in Users : LoadTotal(t)
    \/ \E t \in Users : StoreTotal(t)
    \/ \E t \in Users : LoadCounter(t)
    \/ \E t \in Users : StoreCounter(t)
    \/ \E t \in Users : WorkerSleep(t)
    \/ RunReturn

SpecConc == InitConc /\ [][NextConc]_vars

\* C2: with several worker threads recording outcomes concurrently, every
\* get_metrics() snapshot - taken while other threads are in the middle of an
\* operation, or by run_custom_test after they have all finished - has
\* total_requests = successful_requests + failed_requests.
C2_ConcurrentSnapshotBalanced ==
    last.op = "get_metrics" => Balanced(last.metrics)

(***************************************************************************)
(* DataDistributor (data_sources.py).  get_data_for_user runs under        *)
(* self.lock; threads A and B call it with any user ids.  Inside the lock  *)
(* the index is selected first and the distributor's state updated after.  *)
(***************************************************************************)
Strategies == {"sequential", "random", "circular", "unique", "shared"}

InitData ==
    /\ InitEngine
    /\ IdleConc
    /\ IdleRest
    /\ IdleScen
    /\ strategy \in Strategies
    /\ \E n \in 0..MaxRows : data = Rows(n)
    /\ current_index = 0
    /\ used_indices = {}
    /\ dlock = "free"
    /\ dpc = [t \in DThreads |-> "idle"]
    /\ duser = [t \in DThreads |-> 0]
    /\ dindex = [t \in DThreads |-> 0]
    /\ served = <<>>

\* self.data_source.get_row_count()
data_count == Len(data)

Min(S) == CHOOSE x \in S : \A y \in S : x <= y

\* Mutant of CanAcquire: get_data_for_user without 'with self.lock'
CanAcquire_NoLock(l) == TRUE

\* with self.lock: a thread enters when no thread holds the lock
CanAcquire(l) == l = "free"

\* Mutant of SequentialIndex: the user id taken as 1-based
SequentialIndex_OffByOne(user_id, n) == (user_id + 1) % n

\* index = user_id % data_count
SequentialIndex(user_id, n) == user_id % n

\* index = self.current_index % data_count
CircularIndex(cur, n) == cur % n

\* available_indices = set(range(data_count)) - self.used_indices; min(...)
UniqueIndex(used, n) == Min((0..(n - 1)) \ used)

\* Mutant of UsedAfter: the index handed out is not remembered
UsedAfter_Forget(used, index) == used

\* self.used_indices.add(index)
UsedAfter(used, index) == used \cup {index}

Returned(user_id, index) ==
    [user |-> user_id, index |-> index, row |-> data[index + 1], error |-> ""]

Raised(user_id, error) ==
    [user |-> user_id, index |-> -1, row |-> [id |-> -1, _row_number |-> -1], error |-> error]

CallsBegun == Len(served) + Cardinality({t \in DThreads : dpc[t] # "idle"})

\* a thread calls get_data_for_user(user_id)
DataCall(t, user_id) ==
    /\ dpc[t] = "idle"
    /\ CallsBegun < MaxCalls
    /\ dpc' = [dpc EXCEPT ![t] = "acquire"]
    /\ duser' = [duser EXCEPT ![t] = user_id]
    /\ UNCHANGED <<strategy, data, current_index, used_indices, dlock, dindex, served>>
    /\ UNCHANGED nonDataVars

\* with self.lock:
DataAcquire(t) ==
    /\ dpc[t] = "acquire"
    /\ CanAcquire(dlock)
    /\ dlock' = t
    /\ dpc' = [dpc EXCEPT ![t] = "select"]
    /\ UNCHANGED <<strategy, data, current_index, used_indices, duser, dindex, served>>
    /\ UNCHANGED nonDataVars

\* the raise statements: the with block releases the lock
DataRaise(t, error) ==
    /\ served' = Append(served, Raised(duser[t], error))
    /\ dlock' = "free"
    /\ dpc' = [dpc EXCEPT ![t] = "idle"]
    /\ dindex' = dindex

\* lines 163-192: the index is selected, or the call raises
DataSelect(t) ==
    /\ dpc[t] = "select"
    /\ IF data_count = 0
       THEN DataRaise(t, "No data available")
       ELSE IF strategy = "unique" /\ Cardinality(used_indices) >= data_count
       THEN DataRaise(t, "No more unique data available")
       ELSE /\ \E index \in 0..(data_count - 1) :
                 /\ CASE strategy = "sequential" -> index = SequentialIndex(duser[t], data_count)
                      [] strategy = "random" -> TRUE
                      [] strategy = "circular" -> index = CircularIndex(current_index, data_count)
                      [] strategy = "unique" -> index = UniqueIndex(used_indices, data_count)
                      [] strategy = "shared" -> index = 0
                 /\ dindex' = [dindex EXCEPT ![t] = index]
            /\ dpc' = [dpc EXCEPT ![t] = "commit"]
            /\ UNCHANGED <<dlock, served>>
    /\ UNCHANGED <<strategy, data, current_index, used_indices, duser>>
    /\ UNCHANGED nonDataVars

\* self.current_index += 1 / self.used_indices.add(index), then
\* return self.data_source.data[index].copy(); the lock is released
DataCommit(t) ==
    /\ dpc[t] = "commit"
    /\ current_index' = IF strategy = "circular" THEN current_index + 1 ELSE current_index
    /\ used_indices' = IF strategy = "unique" THEN UsedAfter(used_indices, dindex[t])
                       ELSE used_indices
    /\ served' = Append(served, Returned(duser[t], dindex[t]))
    /\ dlock' = "free"
    /\ dpc' = [dpc EXCEPT ![t] = "idle"]
    /\ UNCHANGED <<strategy, data, duser, dindex>>
    /\ UNCHANGED nonDataVars

NextData ==
    \/ \E t \in DThreads, user_id \in UserIds : DataCall(t, user_id)
    \/ \E t \in DThreads : DataAcquire(t)
    \/ \E t \in DThreads : DataSelect(t)
    \/ \E t \in DThreads : DataCommit(t)

SpecData == InitData /\ [][NextData]_vars

(***************************************************************************)
(* SpecScenario: virtual users running a scenario of HTTP operations.      *)
(* build_requests compiles the whole operation list; Engine.execute_request*)
(* sends one compiled operation; the script feeds the returned dict to     *)
(* process_response and auto_handle_cookies; a form login goes through     *)
(* FormBasedAuthenticationFlow.authenticate.  No session token is ever set *)
(* in these behaviours, so the token part of prepare_request_headers adds  *)
(* no header.                                                              *)
(***************************************************************************)
\* the rules the script hands to process_response
ExtractRules == <<[type |-> "json_path", path |-> "token", variable |-> "tok"]>>

\* the data manager has no source: user_data = {}
NoUserData == [n \in {} |-> ""]

\* HTTPRequest.to_dict and Engine.execute_request join a headers dict into
\* 'k: v' lines; _PythonEngine.execute_request splits the lines back into the
\* dict it sends (a later line of the same key wins)
HeaderOrder == <<"Content-Type", "User-Agent", "Authorization", "Cookie">>

JoinHeaders(headers) ==
    LET present == SelectSeq(HeaderOrder, LAMBDA k : k \in DOMAIN headers)
    IN  [i \in 1..Len(present) |-> <<present[i], headers[present[i]]>>]

ParseHeaders(lines) ==
    [k \in {lines[i][1] : i \in 1..Len(lines)} |->
        lines[CHOOSE i \in 1..Len(lines) :
                 /\ lines[i][1] = k
                 /\ \A j \in (i + 1)..Len(lines) : lines[j][1] # k][2]]

InitScen ==
    /\ InitEngine
    /\ IdleConc
    /\ IdleRest
    /\ IdleData
    /\ variables = [n \in VarNames |-> Unset]
    /\ requests \in [1..MaxScOps -> {HTTPRequest(<<Lit("/me")>>, a) : a \in AuthTemplates}]
    /\ compiled = [u \in VUs |-> <<>>]
    /\ vu_pos = [u \in VUs |-> 0]
    /\ sess_vars = [u \in VUs |-> [n \in SessKeys |-> Unset]]
    /\ sess_cookies = [u \in VUs |-> [i \in 1..Len(CookieNames) |-> Unset]]
    /\ response = [u \in VUs |-> NoResponse]
    /\ last_sent = [u \in VUs |-> NoRequest]
    /\ sources = {}
    /\ compiled_for = [u \in VUs |-> NotCompiled]
    /\ hooks = NoHooks
    /\ hook_log = << >>

\* Scenario.set_variable
set_variable(name, value) ==
    /\ variables' = [variables EXCEPT ![name] = value]
    /\ UNCHANGED <<hooks, hook_log, requests, sources, compiled, compiled_for, vu_pos, sess_vars, sess_cookies, response, last_sent>>
    /\ UNCHANGED nonScenVars

\* the field of the data row a dotted name resolves to: user_data non-empty,
\* '.' in var_name, source in user_data, field in the source's row
InUserData(var_name, user_data) ==
    /\ DOMAIN user_data # {}
    /\ var_name \in DOMAIN DotSplit
    /\ DotSplit[var_name][1] \in DOMAIN user_data
    /\ DotSplit[var_name][2] \in DOMAIN user_data[DotSplit[var_name][1]]

\* replace_var with the scenario variable looked up before the data field
replace_var_VariablesFirst(var_name, user_data) ==
    IF var_name \in DOMAIN variables /\ variables[var_name] # Unset
    THEN Lit(variables[var_name])
    ELSE IF InUserData(var_name, user_data)
         THEN LET value == user_data[DotSplit[var_name][1]][DotSplit[var_name][2]]
              IN  IF value = NoneValue THEN Lit("") ELSE Lit(value)
         ELSE Ph(var_name)

\* replace_var inside _substitute_variables: data field (None as ""), else
\* scenario variable, else the placeholder as it stands.  Data values are
\* held as the strings str() gives.
replace_var(var_name, user_data) ==
    IF InUserData(var_name, user_data)
    THEN LET value == user_data[DotSplit[var_name][1]][DotSplit[var_name][2]]
         IN  IF value = NoneValue THEN Lit("") ELSE Lit(value)
    ELSE IF var_name \in DOMAIN variables /\ variables[var_name] # Unset
         THEN Lit(variables[var_name])
         ELSE Ph(var_name)

_substitute_variables(text, user_data) ==
    [i \in 1..Len(text) |->
        IF text[i].kind = "ph" THEN replace_var(text[i].s, user_data) ELSE text[i]]

_process_request(request, user_data) ==
    [url |-> _substitute_variables(request.url, user_data),
     headers |-> [k \in DOMAIN request.headers |->
                     _substitute_variables(request.headers[k], user_data)]]

\* HTTPRequest.to_dict
to_dict(request) == [url |-> request.url, headers |-> JoinHeaders(request.headers)]

\* DataDistributor.get_data_for_user(user_id) returning row index, as the one
\* step its lock makes it (the history served is kept for SpecData's calls)
GetDataForUser(user_id, index) ==
    /\ index \in 0..(Len(data) - 1)
    /\ CASE strategy = "sequential" -> index = SequentialIndex(user_id, Len(data))
         [] strategy = "random" -> TRUE
         [] strategy = "circular" -> index = CircularIndex(current_index, Len(data))
         [] strategy = "unique" ->
                /\ Cardinality(used_indices) < Len(data)
                /\ index = UniqueIndex(used_indices, Len(data))
         [] strategy = "shared" -> index = 0
    /\ current_index' = IF strategy = "circular" THEN current_index + 1 ELSE current_index
    /\ used_indices' = IF strategy = "unique" THEN UsedAfter(used_indices, index)
                                               ELSE used_indices
    /\ UNCHANGED <<strategy, data, dlock, dpc, duser, dindex, served>>

\* build_requests, lines 147-150: user_data = {} without a data source, else
\* DataManager.get_all_user_data(user_id); index -1 stands for "no source"
FetchUserData(user_id, index) ==
    IF sources = {}
    THEN index = -1 /\ UNCHANGED dataVars
    ELSE current_index < MaxCalls /\ GetDataForUser(user_id, index)

UserData(index) ==
    IF index = -1 THEN NoUserData ELSE [n \in sources |-> data[index + 1]]

\* build_requests, lines 152-158: every request processed and converted
CompileAll(user_data) ==
    [i \in 1..Len(requests) |-> to_dict(_process_request(requests[i], user_data))]

\* Scenario.build_requests(u): every operation of the list is compiled now
build_requests(u) ==
    /\ vu_pos[u] < Len(requests)
    /\ \E index \in -1..(Len(data) - 1) :
          /\ FetchUserData(u, index)
          /\ compiled' = [compiled EXCEPT ![u] = CompileAll(UserData(index))]
          /\ compiled_for' = [compiled_for EXCEPT ![u] = [user_id |-> u, index |-> index]]
    /\ hook_log' = AfterSetup(hook_log, u)
    /\ UNCHANGED <<hooks, variables, requests, sources, vu_pos, sess_vars, sess_cookies, response, last_sent>>
    /\ UNCHANGED <<engineVars, concVars, handleVars, restVars>>

\* what the server may answer
Responses ==
    [status_code : Statuses, body : [token : ServerTokens \cup {Unset}],
     set_cookie : CookieVals \cup {Unset}]

Sent(u, via, index, headers_str) ==
    [via |-> via, index |-> index, headers |-> ParseHeaders(headers_str),
     session_tok |-> sess_vars[u]["tok"], prev_set_cookie |-> response[u].set_cookie]

\* One call of _PythonEngine.execute_request made for user u: the request goes
\* out with the headers of headers_str; the answer is recorded in the metrics
HttpExchange(u, via, index, headers_str, resp) ==
    /\ \/ /\ resp \in Responses
          /\ \E rt \in RTs : metrics' = RecordHttp(metrics, resp.status_code, rt)
       \/ /\ resp = NoResponse
          /\ metrics' = RecordFailure(metrics)
    /\ response' = [response EXCEPT ![u] = resp]
    /\ last_sent' = [last_sent EXCEPT ![u] = Sent(u, via, index, headers_str)]
    /\ UNCHANGED <<tcp_sockets, udp_sockets, last, tcp_hist, udp_hist>>
    /\ UNCHANGED <<concVars, dataVars, handleVars, restVars>>

CanSend == metrics.total_requests < MaxHttp

\* The next operation of the compiled list is handed, as it was compiled, to
\* _PythonEngine.execute_request
execute_compiled(u) ==
    /\ CanSend
    /\ vu_pos[u] < Len(compiled[u])
    /\ \E resp \in Responses \cup {NoResponse} :
          HttpExchange(u, "scenario", vu_pos[u] + 1,
                       compiled[u][vu_pos[u] + 1].headers, resp)
    /\ vu_pos' = [vu_pos EXCEPT ![u] = @ + 1]
    /\ UNCHANGED <<hooks, hook_log, variables, requests, sources, compiled, compiled_for, sess_vars, sess_cookies>>

\* the headers dicts a test function passes: none, or a User-Agent
ScriptHeaders == {NoUserData, [n \in {"User-Agent"} |-> <<Lit("LoadSpiker/1.0")>>]}

\* Engine.execute_request(url, method, headers): the dict is joined and handed
\* to the engine; the session manager is not consulted
EngineExecute(u, via, headers, resp) ==
    HttpExchange(u, via, 0, JoinHeaders(headers), resp)

\* The test function of virtual user u calls engine.execute_request
Engine_execute_request(u) ==
    /\ CanSend
    /\ \E headers \in ScriptHeaders, resp \in Responses \cup {NoResponse} :
          EngineExecute(u, "script", headers, resp)
    /\ UNCHANGED <<hooks, hook_log, variables, requests, sources, compiled, compiled_for, vu_pos, sess_vars, sess_cookies>>

\* ResponseExtractor.extract_json_path: the member, or None
extract_json_path(body, path) ==
    IF path \in DOMAIN body THEN body[path] ELSE Unset

_extract_value_by_rule(resp, rule) == extract_json_path(resp.body, rule.path)

\* the loop of process_response over rules[k..]: session.set for each value found
RECURSIVE ApplyRules(_, _, _, _)
ApplyRules(store, resp, rules, k) ==
    IF k > Len(rules)
    THEN store
    ELSE LET value == _extract_value_by_rule(resp, rules[k])
         IN  ApplyRules(IF value # Unset
                        THEN [store EXCEPT ![rules[k].variable] = value]
                        ELSE store,
                        resp, rules, k + 1)

\* SessionManager.process_response(u, response, ExtractRules), called by the
\* script on the dict its latest HTTP call returned
process_response(u) ==
    /\ last_sent[u].via # "none"
    /\ sess_vars' = [sess_vars EXCEPT ![u] = ApplyRules(@, response[u], ExtractRules, 1)]
    /\ UNCHANGED <<hooks, hook_log, variables, requests, sources, compiled, compiled_for, vu_pos, sess_cookies, response, last_sent>>
    /\ UNCHANGED nonScenVars

CookieIndex(name) == CHOOSE i \in 1..Len(CookieNames) : CookieNames[i] = name

\* _parse_and_store_cookie for each Set-Cookie header of the response
StoreCookies(cookies, resp) ==
    IF resp.set_cookie = Unset
    THEN cookies
    ELSE [cookies EXCEPT ![CookieIndex("sid")] = resp.set_cookie]

\* SessionManager.auto_handle_cookies(u, response), called by the script
auto_handle_cookies(u) ==
    /\ last_sent[u].via # "none"
    /\ sess_cookies' = [sess_cookies EXCEPT ![u] = StoreCookies(@, response[u])]
    /\ UNCHANGED <<hooks, hook_log, variables, requests, sources, compiled, compiled_for, vu_pos, sess_vars, response, last_sent>>
    /\ UNCHANGED nonScenVars

\* '; '.join(name=value) over the session's cookies
cookie_header(cookies) ==
    LET held == SelectSeq([i \in 1..Len(CookieNames) |-> i], LAMBDA i : cookies[i] # Unset)
    IN  [k \in 1..Len(held) |-> <<CookieNames[held[k]], cookies[held[k]]>>]

\* SessionManager.prepare_request_headers: the session's cookies are appended
\* to base's Cookie header, or become the Cookie header
prepare_request_headers(u, base_headers) ==
    LET cookies == cookie_header(sess_cookies[u])
    IN  IF cookies = <<>>
        THEN base_headers
        ELSE IF "Cookie" \in DOMAIN base_headers
             THEN [base_headers EXCEPT !["Cookie"] = @ \o cookies]
             ELSE ("Cookie" :> cookies) @@ base_headers

FormHeaders ==
    ("Content-Type" :> <<Lit("application/x-www-form-urlencoded")>>)
        @@ ("User-Agent" :> <<Lit("LoadSpiker/1.0")>>)

\* FormBasedAuthenticationFlow._check_authentication_success, no indicator set
_check_authentication_success(resp) ==
    resp.status_code >= 200 /\ resp.status_code < 400

\* FormBasedAuthenticationFlow.authenticate with a username and a password
authenticate(u) ==
    /\ CanSend
    /\ \E resp \in Responses \cup {NoResponse} :
          /\ EngineExecute(u, "authenticate",
                           prepare_request_headers(u, FormHeaders), resp)
          /\ sess_cookies' = [sess_cookies EXCEPT ![u] = StoreCookies(@, resp)]
          /\ sess_vars' = [sess_vars EXCEPT ![u] =
                IF _check_authentication_success(resp)
                THEN [@ EXCEPT !["authenticated"] = "True", !["auth_type"] = "form",
                               !["username"] = "user", !["login_url"] = "/login"]
                ELSE @]
    /\ UNCHANGED <<hooks, hook_log, variables, requests, sources, compiled, compiled_for, vu_pos>>

NextScen ==
    \/ \E n \in VarNames, v \in ScriptVals : set_variable(n, v)
    \/ \E u \in VUs : build_requests(u)
    \/ \E u \in VUs : execute_compiled(u)
    \/ \E u \in VUs : Engine_execute_request(u)
    \/ \E u \in VUs : process_response(u)
    \/ \E u \in VUs : auto_handle_cookies(u)
    \/ \E u \in VUs : authenticate(u)

SpecScenario == InitScen /\ [][NextScen]_vars

(***************************************************************************)
(* SpecRun: Engine.run_scenario (no ramp-up) on the Python engine, and     *)
(* scripts that compile the scenario per user, over a scenario with an     *)
(* optional data source "users".                                           *)
(***************************************************************************)
\* rows of the source, as strings; the second row's name may be None
RunRows(n, second_name) ==
    SubSeq(<<[id |-> "1", name |-> "alice", _row_number |-> "1"],
             [id |-> "2", name |-> second_name, _row_number |-> "2"],
             [id |-> "3", name |-> "carol", _row_number |-> "3"]>>, 1, n)

\* scenario variables a script may have set, one under a dotted name
RunVarNames == {"tok", "users.id"}

\* the two operations the scenario alternates, starting with either
RunRequests ==
    <<HTTPRequest(<<Lit("/u/"), Ph("users.id"), Lit("?n="), Ph("users.name")>>,
                  <<Lit("Basic abc")>>),
      HTTPRequest(<<Lit("/z/"), Ph("users.zip"), Ph("other.id"), Ph("tok")>>,
                  <<Lit("Bearer "), Ph("tok")>>)>>

InitRun ==
    /\ InitEngine
    /\ IdleConc
    /\ IdleRest
    /\ strategy \in {"sequential", "circular"}
    /\ \E n \in 1..MaxRows, second_name \in {"bob", NoneValue} : data = RunRows(n, second_name)
    /\ current_index = 0
    /\ used_indices = {}
    /\ dlock = "free"
    /\ dpc = [t \in DThreads |-> "idle"]
    /\ duser = [t \in DThreads |-> 0]
    /\ dindex = [t \in DThreads |-> 0]
    /\ served = <<>>
    /\ variables \in [RunVarNames -> ScriptVals \cup {Unset}]
    /\ \E k \in {0, 1} : requests = [i \in 1..MaxScOps |-> RunRequests[((i + k) % 2) + 1]]
    /\ sources \in {{}, {"users"}}
    /\ compiled = [u \in VUs |-> <<>>]
    /\ compiled_for = [u \in VUs |-> NotCompiled]
    /\ hooks = NoHooks
    /\ hook_log = << >>
    /\ vu_pos = [u \in VUs |-> 0]
    /\ sess_vars = [u \in VUs |-> [n \in SessKeys |-> Unset]]
    /\ sess_cookies = [u \in VUs |-> [i \in 1..Len(CookieNames) |-> Unset]]
    /\ response = [u \in VUs |-> NoResponse]
    /\ last_sent = [u \in VUs |-> NoRequest]

\* _PythonEngine.start_load_test: prints a line, sends nothing
start_load_test(m, reqs, concurrent_users, duration_seconds) == m

\* what run_scenario returns, with the metrics as they were when it was called
RunResult(before, m) == [op |-> "run_scenario", before |-> before, metrics |-> m]

\* Engine.run_scenario(scenario, users, duration): build_requests() with its
\* default user_id 0, the list handed to the engine for every user, then
\* get_metrics()
run_scenario(users, duration) ==
    /\ \E index \in -1..(Len(data) - 1) :
          /\ FetchUserData(0, index)
          /\ compiled' = [u \in VUs |-> CompileAll(UserData(index))]
          /\ compiled_for' = [u \in VUs |-> [user_id |-> 0, index |-> index]]
          /\ metrics' = start_load_test(metrics, CompileAll(UserData(index)), users, duration)
    /\ last' = RunResult(metrics, metrics')
    /\ UNCHANGED <<tcp_sockets, udp_sockets, tcp_hist, udp_hist>>
    /\ hook_log' = AfterSetup(hook_log, 0)
    /\ UNCHANGED <<hooks, variables, requests, sources, vu_pos, sess_vars, sess_cookies, response, last_sent>>
    /\ UNCHANGED <<concVars, handleVars, restVars>>

NextRun ==
    \/ \E users \in {1, 2}, duration \in {1, 60} : run_scenario(users, duration)
    \/ \E u \in VUs : build_requests(u)
    \/ CanSend /\ execute_request /\ UNCHANGED handleVars

SpecRun == InitRun /\ [][NextRun]_vars

\* C6: with strategy unique over N rows the first N calls, in whatever order
\* the threads make them, return N pairwise different rows, and every later
\* call raises; no row index is handed out twice.
C6_UniqueNoRepeat ==
    strategy = "unique" =>
        \A k \in 1..Len(served) :
            IF k <= data_count
            THEN /\ served[k].error = ""
                 /\ \A j \in 1..(k - 1) :
                        /\ served[j].index # served[k].index
                        /\ served[j].row # served[k].row
            ELSE served[k].error # ""

\* C6 witness: two rows handed out, the third call raised
C6_Witness ==
    /\ strategy = "unique"
    /\ data_count = 2
    /\ Len(served) = 3
    /\ served[2].error = ""
    /\ served[3].error # ""

\* C7: with strategy sequential over N >= 1 rows, get_data_for_user(i) returns
\* a copy of row i mod N, whatever was called before.
C7_SequentialRow ==
    (strategy = "sequential" /\ data_count >= 1) =>
        \A k \in 1..Len(served) :
            /\ served[k].error = ""
            /\ served[k].index = served[k].user % data_count
            /\ served[k].row = data[(served[k].user % data_count) + 1]

\* C7 witness: user 3 over two rows gets row 1, again after another user's call
C7_Witness ==
    /\ strategy = "sequential"
    /\ data_count = 2
    /\ Len(served) = 3
    /\ served[1].user = 3 /\ served[1].index = 1
    /\ served[2].user = 2
    /\ served[3].user = 3 /\ served[3].index = 1

\* C8: with strategy circular over N >= 1 rows the k-th served call
\* (k = 0, 1, 2, ... over all users and threads) returns row k mod N, and the
\* shared counter has advanced by exactly one per served call.
C8_CircularOrder ==
    (strategy = "circular" /\ data_count >= 1) =>
        /\ current_index = Len(served)
        /\ \A k \in 1..Len(served) :
              /\ served[k].error = ""
              /\ served[k].index = (k - 1) % data_count
              /\ served[k].row = data[((k - 1) % data_count) + 1]

\* C8 witness: three calls over two rows, the third wraps around to row 0
\* while the other thread is inside its own call
C8_Witness ==
    /\ strategy = "circular"
    /\ data_count = 2
    /\ Len(served) = 3
    /\ served[3].index = 0
    /\ served[1].user # served[2].user

\* the text with every ${tok} replaced by the value v
Resolved(text, v) ==
    [i \in 1..Len(text) |-> IF text[i] = Ph("tok") THEN Lit(v) ELSE text[i]]

\* C9: when a scenario operation is sent while the virtual user's session
\* holds tok = v, extracted from an earlier outcome, the operation's
\* Authorization header is its template with ${tok} resolved to v.
C9_ExtractedVariableSubstituted ==
    \A u \in VUs :
        (last_sent[u].via = "scenario" /\ last_sent[u].session_tok # Unset) =>
            last_sent[u].headers["Authorization"]
                = Resolved(requests[last_sent[u].index].headers["Authorization"],
                           last_sent[u].session_tok)

\* C10: when the response to a virtual user's previous HTTP operation carried
\* Set-Cookie: sid=v, its next HTTP operation is sent with a Cookie header
\* that contains sid=v.
C10_SetCookieAttached ==
    \A u \in VUs :
        (last_sent[u].via # "none" /\ last_sent[u].prev_set_cookie # Unset) =>
            /\ "Cookie" \in DOMAIN last_sent[u].headers
            /\ \E i \in 1..Len(last_sent[u].headers["Cookie"]) :
                  last_sent[u].headers["Cookie"][i] = <<"sid", last_sent[u].prev_set_cookie>>

\* C11: run_scenario called on an engine with zeroed metrics returns metrics
\* with total_requests >= 1, successful_requests = total_requests and
\* failed_requests = 0.
C11_RunExecutesRequests ==
    (last.op = "run_scenario" /\ last.before = ZeroMetrics) =>
        /\ last.metrics.total_requests >= 1
        /\ last.metrics.successful_requests = last.metrics.total_requests
        /\ last.metrics.failed_requests = 0

\* C12: with a Sequential source of R rows, the list of operations virtual
\* user u runs is the scenario compiled with row u mod R.
C12_CompiledPerUser ==
    \A u \in VUs :
        (compiled_for[u] # NotCompiled /\ sources # {} /\ strategy = "sequential") =>
            compiled[u] = CompileAll([n \in sources |-> data[(u % Len(data)) + 1]])

\* the row a placeholder name resolves in: the source is loaded and its row
\* number index has the field
SourceHasField(name, index) ==
    /\ index # -1
    /\ name \in DOMAIN DotSplit
    /\ DotSplit[name][1] \in sources
    /\ DotSplit[name][2] \in DOMAIN data[index + 1]

\* what the claim says a piece of text becomes
ExpectedPiece(piece, index) ==
    IF piece.kind = "lit"
    THEN piece
    ELSE IF SourceHasField(piece.s, index)
         THEN LET value == data[index + 1][DotSplit[piece.s][2]]
              IN  Lit(IF value = NoneValue THEN "" ELSE value)
         ELSE IF piece.s \in DOMAIN variables /\ variables[piece.s] # Unset
              THEN Lit(variables[piece.s])
              ELSE piece

ExpectedText(text, index) == [k \in 1..Len(text) |-> ExpectedPiece(text[k], index)]

FirstOpMetrics ==
    {ZeroMetrics, RecordSuccess(ZeroMetrics), RecordFailure(ZeroMetrics),
     RecordSuccess(RecordSuccess(ZeroMetrics)), RecordFailure(RecordSuccess(ZeroMetrics))}
        \cup {RecordHttp(ZeroMetrics, status_code, rt) : status_code \in Statuses, rt \in RTs}

\* C14: right after reset_metrics every counter is zero, a snapshot taken then
\* shows zeros, and the first operation after it leaves the counters of one
\* operation counted from zero.
C14_ResetZeroes ==
    /\ [](last.op = "reset_metrics" => metrics = ZeroMetrics)
    /\ [][last.op = "reset_metrics" =>
            \/ last'.op = "reset_metrics"
            \/ last'.op = "get_metrics" /\ last'.metrics = ZeroMetrics
            \/ last'.op \notin {"reset_metrics", "get_metrics"} /\ metrics' \in FirstOpMetrics]_vars

\* C14 witness: a reset after three recorded operations with response times
C14_Witness ==
    /\ last.op = "reset_metrics"
    /\ metrics = ZeroMetrics
    /\ \E k \in Keys : tcp_hist[k] = "connected"

\* C15: every engine operation that returns success = FALSE raises
\* failed_requests, whatever the reason of the failure (no connection, no
\* endpoint, failed connect).
C15_FailureCounted ==
    [][(last'.op \notin {"none", "get_metrics", "reset_metrics"} /\ ~last'.success)
          => metrics'.failed_requests > metrics.failed_requests]_vars

\* C19: when tcp_receive or udp_receive fails on an existing handle (the
\* timeout expires: recv / recvfrom raises), the outcome is a failure and the
\* handle is no longer in the registry, so that the next send or receive on
\* the key reports no connection / no endpoint.
C19_TimeoutRemovesHandle ==
    /\ (last.op = "tcp_receive" /\ ~last.success /\ last.error = "exception")
          => last.key \notin tcp_sockets
    /\ (last.op = "udp_receive" /\ ~last.success /\ last.error = "exception")
          => last.key \notin udp_sockets

\* C20: in run_custom_test an exception raised by one virtual user's test
\* function ends only that iteration: the raising worker goes on to its sleep
\* and its next iteration, no worker ends before the deadline, the other
\* workers, the counters and the calling thread are untouched by the raise, and
\* run_custom_test returns the metrics once every worker has finished.
C20_ExceptionEndsIterationOnly ==
    /\ [](\A t \in Users : wpc[t] = "done" => expired)
    /\ [](main_pc = "returned" =>
            /\ last = Snapshot(metrics)
            /\ \A t \in Users : wpc[t] = "done")
    /\ [][\A t \in Users : wraised'[t] # wraised[t] =>
            /\ wpc'[t] = "sleep"
            /\ \A o \in Users \ {t} : wpc'[o] = wpc[o] /\ witer'[o] = witer[o]
            /\ metrics' = metrics
            /\ main_pc' = main_pc]_vars

\* C20 witness: a worker raised in its first iteration and began another one,
\* the other worker never raised and had its operations counted, and the run
\* returned
C20_Witness ==
    /\ main_pc = "returned"
    /\ \E t \in Users :
          /\ 1 \in wraised[t]
          /\ witer[t] >= 2
          /\ \E o \in Users \ {t} : wraised[o] = {} /\ witer[o] >= 1
    /\ metrics.total_requests >= 1

(***************************************************************************)
(* run_custom_test with test functions that open and use TCP sockets and   *)
(* UDP endpoints.  The registries _tcp_sockets and _udp_sockets belong to  *)
(* the engine, which every worker thread is handed (test_func(self,        *)
(* user_id)); they are keyed by "host:port".  Each engine call is one      *)
(* step here.                                                              *)
(***************************************************************************)
\* the address the test functions work with
RunKeys == {"h1:7"}

\* self._tcp_sockets[key] = sock on a key that holds a socket: the earlier
\* socket object loses its last reference without close() having been called.
\* Whether it is closed is left to the interpreter: at once where objects are
\* finalized when their reference count drops, at some later collection or
\* never otherwise.
OpenAfterRegister(open, socks, key, finalized) ==
    IF key \in socks /\ finalized THEN open ELSE [open EXCEPT ![key] = @ + 1]

\* sock.close() in tcp_disconnect / udp_close_endpoint
OpenAfterClose(open, key) == [open EXCEPT ![key] = @ - 1]

\* the engine call of worker t has been made by t
CalledBy(t) ==
    /\ wpc[t] = "call"
    /\ caller' = t

vu_tcp_connect(t, key) ==
    /\ CalledBy(t)
    /\ tcp_connect(key)
    /\ \E finalized \in BOOLEAN :
          tcp_open' = IF last'.success
                      THEN OpenAfterRegister(tcp_open, tcp_sockets, key, finalized)
                      ELSE tcp_open
    /\ tcp_owner' = IF last'.success THEN [tcp_owner EXCEPT ![key] = t] ELSE tcp_owner
    /\ UNCHANGED <<udp_open, udp_owner>>

vu_tcp_send(t, key) ==
    /\ CalledBy(t)
    /\ tcp_send(key)
    /\ UNCHANGED <<tcp_open, udp_open, tcp_owner, udp_owner>>

vu_tcp_receive(t, key) ==
    /\ CalledBy(t)
    /\ tcp_receive(key)
    /\ UNCHANGED <<tcp_open, udp_open, tcp_owner, udp_owner>>

vu_tcp_disconnect(t, key) ==
    /\ CalledBy(t)
    /\ tcp_disconnect(key)
    /\ tcp_open' = IF last'.success THEN OpenAfterClose(tcp_open, key) ELSE tcp_open
    /\ tcp_owner' = IF last'.success THEN [tcp_owner EXCEPT ![key] = NoWorker] ELSE tcp_owner
    /\ UNCHANGED <<udp_open, udp_owner>>

vu_udp_create_endpoint(t, key) ==
    /\ CalledBy(t)
    /\ udp_create_endpoint(key)
    /\ \E finalized \in BOOLEAN :
          udp_open' = IF last'.success
                      THEN OpenAfterRegister(udp_open, udp_sockets, key, finalized)
                      ELSE udp_open
    /\ udp_owner' = IF last'.success THEN [udp_owner EXCEPT ![key] = t] ELSE udp_owner
    /\ UNCHANGED <<tcp_open, tcp_owner>>

\* udp_send creates the endpoint itself when the key has none
vu_udp_send(t, key) ==
    /\ CalledBy(t)
    /\ udp_send(key)
    /\ udp_open' = IF key \notin udp_sockets /\ key \in udp_sockets'
                   THEN OpenAfterRegister(udp_open, udp_sockets, key, FALSE)
                   ELSE udp_open
    /\ udp_owner' = IF key \notin udp_sockets /\ key \in udp_sockets'
                    THEN [udp_owner EXCEPT ![key] = t]
                    ELSE udp_owner
    /\ UNCHANGED <<tcp_open, tcp_owner>>

vu_udp_receive(t, key) ==
    /\ CalledBy(t)
    /\ udp_receive(key)
    /\ UNCHANGED <<tcp_open, udp_open, tcp_owner, udp_owner>>

vu_udp_close_endpoint(t, key) ==
    /\ CalledBy(t)
    /\ udp_close_endpoint(key)
    /\ udp_open' = IF last'.success THEN OpenAfterClose(udp_open, key) ELSE udp_open
    /\ udp_owner' = IF last'.success THEN [udp_owner EXCEPT ![key] = NoWorker] ELSE udp_owner
    /\ UNCHANGED <<tcp_open, tcp_owner>>

\* test_func returns: time.sleep(0.1) is next
WorkerReturn(t) ==
    /\ wpc[t] = "call"
    /\ wpc' = [wpc EXCEPT ![t] = "sleep"]
    /\ UNCHANGED <<main_pc, expired, wtmp, wok, witer, wraised, engineVars>>
    /\ UNCHANGED nonConcVars

InitHandles ==
    /\ InitEngine
    /\ IdleConc
    /\ IdleRest
    /\ IdleData
    /\ IdleScen

NextHandles ==
    \/ RunStart
    \/ DeadlinePasses
    \/ \E t \in Users : WorkerLoop(t)
    \/ \E t \in Users, key \in RunKeys : vu_tcp_connect(t, key)
    \/ \E t \in Users, key \in RunKeys : vu_tcp_send(t, key)
    \/ \E t \in Users, key \in RunKeys : vu_tcp_receive(t, key)
    \/ \E t \in Users, key \in RunKeys : vu_tcp_disconnect(t, key)
    \/ \E t \in Users, key \in RunKeys : vu_udp_create_endpoint(t, key)
    \/ \E t \in Users, key \in RunKeys : vu_udp_send(t, key)
    \/ \E t \in Users, key \in RunKeys : vu_udp_receive(t, key)
    \/ \E t \in Users, key \in RunKeys : vu_udp_close_endpoint(t, key)
    \/ \E t \in Users : WorkerReturn(t)
    \/ \E t \in Users : WorkerSleep(t)
    \/ RunReturn

SpecHandles == InitHandles /\ [][NextHandles]_vars

(***************************************************************************)
(* run_custom_test with the test function seen from outside: each call     *)
(* returns or raises.  The clock advances, every started thread keeps      *)
(* being scheduled and join() returns once its thread has ended: weak      *)
(* fairness of the deadline, of each worker's steps and of the return.     *)
(***************************************************************************)
WorkerStep(t) ==
    \/ WorkerLoop(t)
    \/ WorkerReturn(t)
    \/ WorkerRaise(t)
    \/ WorkerSleep(t)

NextTerm ==
    \/ RunStart
    \/ DeadlinePasses
    \/ \E t \in Users : WorkerLoop(t)
    \/ \E t \in Users : WorkerReturn(t)
    \/ \E t \in Users : WorkerRaise(t)
    \/ \E t \in Users : WorkerSleep(t)
    \/ RunReturn

SpecTerm ==
    /\ InitConc
    /\ [][NextTerm]_vars
    /\ WF_vars(RunStart)
    /\ WF_vars(DeadlinePasses)
    /\ \A t \in Users : WF_vars(WorkerStep(t))
    /\ WF_vars(RunReturn)

\* C21: run_custom_test terminates when every call of the test function
\* returns or raises: no worker begins an iteration once the deadline has
\* been reached, every worker eventually ends, and run_custom_test returns,
\* which it does only after all workers have ended.
C21_RunTerminates ==
    /\ [][expired => witer' = witer]_vars
    /\ [](main_pc = "returned" => \A t \in Users : wpc[t] = "done")
    /\ \A t \in Users : (main_pc = "running") ~> (wpc[t] = "done")
    /\ (main_pc = "running") ~> (main_pc = "returned")

\* C21 witness: the run returned after a worker made its iterations, one
\* ending with an exception, and both workers ended
C21_Witness ==
    /\ main_pc = "returned"
    /\ expired
    /\ \A t \in Users : wpc[t] = "done"
    /\ \E t \in Users : witer[t] = MaxIters /\ wraised[t] # {}
    /\ \E t \in Users : witer[t] >= 1 /\ wraised[t] = {}

\* C16: when run_custom_test has returned, no TCP socket and no UDP endpoint
\* opened by the workers during the run is still registered or open.
C16_RunLeavesNoHandle ==
    main_pc = "returned" =>
        \A key \in Keys :
            /\ key \notin tcp_sockets /\ tcp_open[key] = 0
            /\ key \notin udp_sockets /\ udp_open[key] = 0

\* C17: a registry key has at most one open handle: the open sockets of a key
\* are the registered one, if any, and no other (a connect or create on a key
\* that holds a socket leaves no earlier socket open).
C17_OneOpenHandlePerKey ==
    \A key \in Keys :
        /\ tcp_open[key] = (IF key \in tcp_sockets THEN 1 ELSE 0)
        /\ udp_open[key] = (IF key \in udp_sockets THEN 1 ELSE 0)

\* the outcome o is of a call that found a registered TCP socket and used it
\* (send, receive), closed it (disconnect) or put another in its place (connect)
TouchesTcp(o) ==
    /\ o.op \in {"tcp_connect", "tcp_send", "tcp_receive", "tcp_disconnect"}
    /\ o.op = "tcp_connect" => o.success
    /\ o.key \in tcp_sockets

TouchesUdp(o) ==
    /\ o.op \in {"udp_create_endpoint", "udp_send", "udp_receive", "udp_close_endpoint"}
    /\ o.op = "udp_create_endpoint" => o.success
    /\ o.key \in udp_sockets

\* C18: an engine call of one virtual user never uses, replaces or removes a
\* handle that another virtual user's call registered.
C18_HandlesPerVU ==
    [][UNCHANGED concVars =>
          /\ TouchesTcp(last') => tcp_owner[last'.key] = caller'
          /\ TouchesUdp(last') => udp_owner[last'.key] = caller']_vars

(***************************************************************************)
(* Engine._run_with_ramp_up (engine.py 958-981).  Every time.time() of the *)
(* loop is a read of its own: the clock may advance between the while      *)
(* test, the ramp test, the progress computation and the burst.  Times are *)
(* whole ticks counted from start_time; int(target_users * progress) is    *)
(* taken exactly.                                                          *)
(***************************************************************************)
Max(a, b) == IF a > b THEN a ELSE b

\* max(1, int(target_users * progress)), progress = (time.time() - start_time) / ramp_up_duration
RampUsers(target_users, ramp_up_duration, t) ==
    Max(1, (target_users * t) \div ramp_up_duration)

\* the clock advances
Tick ==
    /\ rpc \notin {"idle", "done"}
    /\ now < MaxClock
    /\ now' = now + 1
    /\ UNCHANGED <<rpc, ramp, tested_at, current_users, bursts>>
    /\ UNCHANGED <<engineVars, concVars, dataVars, scenVars, handleVars, sessVars, assertVars>>

\* start_time = time.time(); ...; current_users = 1
RampStart(target_users, ramp_up_duration, duration) ==
    /\ rpc = "idle"
    /\ ramp' = [target_users |-> target_users, ramp_up_duration |-> ramp_up_duration,
                duration |-> duration]
    /\ current_users' = 1
    /\ rpc' = "while"
    /\ UNCHANGED <<now, tested_at, bursts>>
    /\ UNCHANGED <<engineVars, concVars, dataVars, scenVars, handleVars, sessVars, assertVars>>

\* while time.time() < test_end_time:
RampWhile ==
    /\ rpc = "while"
    /\ tested_at' = now
    /\ rpc' = IF now < ramp.duration THEN "if" ELSE "done"
    /\ UNCHANGED <<now, ramp, current_users, bursts>>
    /\ UNCHANGED <<engineVars, concVars, dataVars, scenVars, handleVars, sessVars, assertVars>>

\* if time.time() < ramp_end_time: ... else: current_users = target_users
RampIf ==
    /\ rpc = "if"
    /\ IF now < ramp.ramp_up_duration
       THEN rpc' = "progress" /\ current_users' = current_users
       ELSE rpc' = "burst" /\ current_users' = ramp.target_users
    /\ UNCHANGED <<now, ramp, tested_at, bursts>>
    /\ UNCHANGED <<engineVars, concVars, dataVars, scenVars, handleVars, sessVars, assertVars>>

\* progress = (time.time() - start_time) / ramp_up_duration; current_users = max(1, int(...))
RampProgress ==
    /\ rpc = "progress"
    /\ current_users' = RampUsers(ramp.target_users, ramp.ramp_up_duration, now)
    /\ rpc' = "burst"
    /\ UNCHANGED <<now, ramp, tested_at, bursts>>
    /\ UNCHANGED <<engineVars, concVars, dataVars, scenVars, handleVars, sessVars, assertVars>>

\* self._engine.start_load_test(requests, current_users, min(5, int(test_end_time - time.time())))
RampBurst ==
    /\ rpc = "burst"
    /\ metrics' = start_load_test(metrics, compiled[0], current_users,
                                  Min({5, ramp.duration - now}))
    /\ bursts' = Append(bursts, [tested_at |-> tested_at, users |-> current_users])
    /\ rpc' = "sleep"
    /\ UNCHANGED <<now, ramp, tested_at, current_users>>
    /\ UNCHANGED <<tcp_sockets, udp_sockets, last, tcp_hist, udp_hist>>
    /\ UNCHANGED <<concVars, dataVars, scenVars, handleVars, sessVars, assertVars>>

\* time.sleep(1): at least one tick
RampSleep ==
    /\ rpc = "sleep"
    /\ now < MaxClock
    /\ now' = now + 1
    /\ rpc' = "while"
    /\ UNCHANGED <<ramp, tested_at, current_users, bursts>>
    /\ UNCHANGED <<engineVars, concVars, dataVars, scenVars, handleVars, sessVars, assertVars>>

InitRamp ==
    /\ InitEngine
    /\ IdleConc
    /\ IdleData
    /\ IdleScen
    /\ IdleRest

NextRamp ==
    \/ \E target_users \in 1..MaxTarget, ramp_up_duration \in 1..(MaxClock - 1),
          duration \in 1..(MaxClock - 1) :
            RampStart(target_users, ramp_up_duration, duration)
    \/ Tick
    \/ RampWhile
    \/ RampIf
    \/ RampProgress
    \/ RampBurst
    \/ RampSleep

SpecRamp == InitRamp /\ [][NextRamp]_vars

\* C22: in a ramped run the user count of every burst is between 1 and
\* target_users and never below the count of the burst before it; a burst
\* whose loop test was made before the end of the ramp has at least the
\* share of target_users that the elapsed time gives, a burst whose loop test
\* was made at or after the end of the ramp has target_users; no burst follows
\* a loop test made at or after the end of the run.
C22_RampCounts ==
    \A i \in 1..Len(bursts) :
        /\ 1 <= bursts[i].users
        /\ bursts[i].users <= ramp.target_users
        /\ i > 1 => bursts[i - 1].users <= bursts[i].users
        /\ bursts[i].tested_at < ramp.ramp_up_duration =>
              bursts[i].users >= RampUsers(ramp.target_users, ramp.ramp_up_duration,
                                           bursts[i].tested_at)
        /\ bursts[i].tested_at >= ramp.ramp_up_duration =>
              bursts[i].users = ramp.target_users
        /\ bursts[i].tested_at < ramp.duration

(***************************************************************************)
(* SessionStore and SessionManager (session_manager.py).  A store is a     *)
(* record; its '_token_expires_<type>' entries of _data, which are         *)
(* numbers, are kept in the field expires, the other entries in data.      *)
(* Header values are sequences of strings, to be read concatenated.        *)
(***************************************************************************)
_cleanup_interval == 300

_default_session_timeout == 3600

\* 'jwt' stands for a token type other than 'bearer' and 'api_key'
TokenTypes == {"bearer", "api_key", "jwt"}

StoreVarKeys == {"v", "authenticated", "auth_type", "api_key_header", "jwt_header"}

StoreCookieNames == {"sid"}

\* self.get('_token_expires_<type>') is None
NoExpiry == -1

\* SessionStore.__init__ at time t
NewStore(t) ==
    [ data |-> [k \in StoreVarKeys |-> Unset],
      expires |-> [k \in TokenTypes |-> NoExpiry],
      cookies |-> [c \in StoreCookieNames |-> Unset],
      tokens |-> [k \in TokenTypes |-> Unset],
      created_at |-> t,
      last_accessed |-> t ]

\* self._last_accessed = time.time()
Touch(st, t) == [st EXCEPT !.last_accessed = t]

\* Python's truth value of an Optional[str]
Truthy(v) == v # Unset /\ v # ""

\* is_token_expired with every recorded expiry taken as passed
is_token_expired_AtExpiry(st, token_type, t) ==
    st.expires[token_type] # NoExpiry /\ t >= st.expires[token_type]

\* SessionStore.is_token_expired, the value returned
is_token_expired(st, token_type, t) ==
    st.expires[token_type] # NoExpiry /\ t > st.expires[token_type]

\* headers[name] = value
Put(headers, name, value) == (name :> value) @@ headers

\* session.get(key, default)
GetOr(st, key, default) == IF st.data[key] = Unset THEN default ELSE st.data[key]

\* '; '.join(name=value) of the store's cookies
JoinCookies(st) == <<"sid", "=", st.cookies["sid"]>>

\* prepare_request_headers, lines 329-336
WithCookies(headers, st) ==
    IF \A c \in StoreCookieNames : st.cookies[c] = Unset
    THEN headers
    ELSE IF "Cookie" \in DOMAIN headers
         THEN [headers EXCEPT !["Cookie"] = @ \o <<"; ">> \o JoinCookies(st)]
         ELSE Put(headers, "Cookie", JoinCookies(st))

\* lines 338-341
WithBearer(headers, st, t) ==
    IF Truthy(st.tokens["bearer"]) /\ ~is_token_expired(st, "bearer", t)
    THEN Put(headers, "Authorization", <<"Bearer ", st.tokens["bearer"]>>)
    ELSE headers

\* lines 343-347
WithApiKey(headers, st) ==
    IF Truthy(st.tokens["api_key"])
    THEN Put(headers, GetOr(st, "api_key_header", "X-API-Key"), <<st.tokens["api_key"]>>)
    ELSE headers

\* lines 349-353, for the one other token type
WithOtherTokens(headers, st, t) ==
    IF st.tokens["jwt"] # Unset /\ ~is_token_expired(st, "jwt", t)
    THEN Put(headers, GetOr(st, "jwt_header", "X-Jwt-Token"), <<st.tokens["jwt"]>>)
    ELSE headers

\* the dict prepare_request_headers returns for a store, base headers and the time
PrepareHeaders(st, base_headers, t) ==
    WithOtherTokens(WithApiKey(WithBearer(WithCookies(base_headers, st), st, t), st), st, t)

\* prepare_request_headers reads through session.get (which records the
\* access) only when a token makes it look up an expiry or a header name
StoreAfterPrepare(st, t) ==
    IF Truthy(st.tokens["bearer"]) \/ Truthy(st.tokens["api_key"]) \/ st.tokens["jwt"] # Unset
    THEN Touch(st, t)
    ELSE st

\* the sweep with the cleanup interval taken as the session timeout
_cleanup_expired_sessions_Interval(ss, t) ==
    [u \in {k \in DOMAIN ss : ~(t - ss[k].last_accessed > _cleanup_interval)} |-> ss[u]]

\* _cleanup_expired_sessions at time t: the sessions that stay
_cleanup_expired_sessions(ss, t) ==
    [u \in {k \in DOMAIN ss : ~(t - ss[k].last_accessed > _default_session_timeout)} |-> ss[u]]

\* get_session: if time.time() - self._last_cleanup > self._cleanup_interval
SweepDue(lc, t) == t - lc > _cleanup_interval

\* get_session: if user_key not in self._sessions: self._sessions[user_key] = SessionStore()
WithSession(ss, u, t) == IF u \in DOMAIN ss THEN ss ELSE (u :> NewStore(t)) @@ ss

\* self._sessions when get_session(u) is at its return statement
SessionsAfterGet(ss, lc, u, t) ==
    IF SweepDue(lc, t)
    THEN _cleanup_expired_sessions(WithSession(ss, u, t), t)
    ELSE WithSession(ss, u, t)

\* self._last_cleanup after get_session
CleanupAfterGet(lc, t) == IF SweepDue(lc, t) THEN t ELSE lc

\* SessionManager.prepare_request_headers(u, base_headers); get_session
\* raises KeyError when the sweep has just removed u's own session
SessionManager_prepare_request_headers(u, base_headers) ==
    LET ss == SessionsAfterGet(sessions, last_cleanup, u, now)
    IN  /\ last_cleanup' = CleanupAfterGet(last_cleanup, now)
        /\ IF u \in DOMAIN ss
           THEN /\ sessions' = [ss EXCEPT ![u] = StoreAfterPrepare(@, now)]
                /\ sret' = [op |-> "prepare_request_headers", user |-> u, raised |-> FALSE,
                            base |-> base_headers, store |-> ss[u], at |-> now,
                            headers |-> PrepareHeaders(ss[u], base_headers, now)]
           ELSE /\ sessions' = ss
                /\ sret' = [op |-> "prepare_request_headers", user |-> u, raised |-> TRUE]
        /\ UNCHANGED <<now, nticks, ncalls, flows, rampVars, assertVars>>
        /\ UNCHANGED <<engineVars, concVars, dataVars, scenVars, handleVars>>

(***************************************************************************)
(* prepare_request_headers over the stores a session can hold              *)
(***************************************************************************)
NoHeaders == << >>

BaseHeaders ==
    {NoHeaders,
     "Authorization" :> <<"Basic abc">>,
     "Cookie" :> <<"b=1">>,
     "X-API-Key" :> <<"base">>,
     "X-Jwt-Token" :> <<"base">>}

PrepareStores ==
    { [ data |-> [kk \in StoreVarKeys |-> IF kk = "api_key_header" THEN h1
                                         ELSE IF kk = "jwt_header" THEN h2 ELSE Unset],
        expires |-> ("bearer" :> e) @@ ("api_key" :> NoExpiry) @@ ("jwt" :> NoExpiry),
        cookies |-> [c \in StoreCookieNames |-> sid],
        tokens |-> ("bearer" :> b) @@ ("api_key" :> k) @@ ("jwt" :> j),
        created_at |-> 0,
        last_accessed |-> 0 ] :
      h1 \in {Unset, "Authorization"}, h2 \in {Unset, "Authorization"},
      e \in {NoExpiry, _cleanup_interval, _cleanup_interval + 1},
      sid \in {Unset, "XYZ"}, b \in {Unset, "", "T"}, k \in {Unset, "K"}, j \in {Unset, "J"} }

InitPrepare ==
    /\ InitEngine
    /\ IdleConc
    /\ IdleData
    /\ IdleScen
    /\ IdleRamp
    /\ now \in {_cleanup_interval, _cleanup_interval + 1}
    /\ \E st \in PrepareStores : sessions = ("1" :> st)
    /\ last_cleanup = 0
    /\ sret = NoCall
    /\ nticks = 0
    /\ ncalls = 0
    /\ flows = {}
    /\ IdleAssert

NextPrepare ==
    \E base_headers \in BaseHeaders : SessionManager_prepare_request_headers("1", base_headers)

SpecPrepare == InitPrepare /\ [][NextPrepare]_vars

\* C23: prepare_request_headers never overrides a header given in base: every
\* header of base is in the returned map with base's value, whatever cookies
\* and tokens the session holds.
C23_BaseHeadersWin ==
    (sret.op = "prepare_request_headers" /\ ~sret.raised) =>
        \A name \in DOMAIN sret.base :
            name \in DOMAIN sret.headers /\ sret.headers[name] = sret.base[name]

\* the store makes some token other than the bearer token go out under the
\* header name Authorization
OtherTokenAsAuthorization(st) ==
    \/ Truthy(st.tokens["api_key"]) /\ st.data["api_key_header"] = "Authorization"
    \/ st.tokens["jwt"] # Unset /\ st.data["jwt_header"] = "Authorization"

\* the returned map carries 'Authorization: Bearer <the session's bearer token>'
HasBearerHeader(r) ==
    /\ "Authorization" \in DOMAIN r.headers
    /\ r.headers["Authorization"] = <<"Bearer ", r.store.tokens["bearer"]>>

\* the session holds a bearer token with no expiry recorded or now <= expires_at
HoldsLiveBearer(r) ==
    /\ r.store.tokens["bearer"] # Unset
    /\ r.store.expires["bearer"] = NoExpiry \/ r.at <= r.store.expires["bearer"]

\* C24 as stated: with no Authorization in base, the returned map carries
\* 'Authorization: Bearer t' if and only if the session holds a bearer token t
\* that is not expired.
C24_Original ==
    (/\ sret.op = "prepare_request_headers"
     /\ ~sret.raised
     /\ "Authorization" \notin DOMAIN sret.base)
        => (HasBearerHeader(sret) <=> HoldsLiveBearer(sret))

\* C24 amended: the same, for a bearer token that is not the empty string
\* and a session in which no API key or other token is configured to go out
\* under the header name Authorization.
C24_Amended ==
    (/\ sret.op = "prepare_request_headers"
     /\ ~sret.raised
     /\ "Authorization" \notin DOMAIN sret.base
     /\ sret.store.tokens["bearer"] # ""
     /\ ~OtherTokenAsAuthorization(sret.store))
        => (HasBearerHeader(sret) <=> HoldsLiveBearer(sret))

\* C24 witness: a bearer token at the very time of its expiry is attached, next
\* to a cookie and an API key
C24_Witness ==
    /\ sret.op = "prepare_request_headers"
    /\ ~sret.raised
    /\ "Authorization" \notin DOMAIN sret.base
    /\ ~OtherTokenAsAuthorization(sret.store)
    /\ sret.store.tokens["bearer"] = "T"
    /\ sret.store.expires["bearer"] = sret.at
    /\ sret.store.tokens["api_key"] = "K"
    /\ HasBearerHeader(sret)

(***************************************************************************)
(* The methods of SessionStore, as the store they leave at time t, and the *)
(* calls a script makes on the session manager.  A user id is an int or a  *)
(* str; the manager keys its sessions by str(user_id).                     *)
(***************************************************************************)
store_get(st, t) == Touch(st, t)

store_set(st, key, value, t) == Touch([st EXCEPT !.data[key] = value], t)

store_delete(st, key, t) == Touch([st EXCEPT !.data[key] = Unset], t)

\* return self._cookies.get(name)
store_get_cookie(st, t) == st

\* domain '' and path '/': no metadata entry
store_set_cookie(st, name, value, t) == Touch([st EXCEPT !.cookies[name] = value], t)

\* return self._cookies.copy()
store_get_all_cookies(st, t) == st

store_clear_cookies(st, t) == Touch([st EXCEPT !.cookies = [c \in StoreCookieNames |-> Unset]], t)

\* return self._tokens.get(token_type)
store_get_token(st, t) == st

\* if expires_at: self.set('_token_expires_<type>', expires_at)
store_set_token(st, token_type, token_value, expires_at, t) ==
    Touch([st EXCEPT !.tokens[token_type] = token_value,
                     !.expires[token_type] = IF expires_at \in {NoExpiry, 0} THEN @ ELSE expires_at],
          t)

\* return self._tokens.copy()
store_get_all_tokens(st, t) == st

\* self._tokens.clear(): the recorded expiries are entries of _data and stay
store_clear_tokens(st, t) == Touch([st EXCEPT !.tokens = [k \in TokenTypes |-> Unset]], t)

\* is_token_expired reads the expiry through self.get
store_is_token_expired(st, t) == store_get(st, t)

store_clear(st, t) == [NewStore(t) EXCEPT !.created_at = st.created_at]

StoreOps ==
    {"get", "set", "delete", "get_cookie", "set_cookie", "get_all_cookies", "clear_cookies",
     "get_token", "set_token", "get_all_tokens", "clear_tokens", "is_token_expired", "clear"}

\* the store after the method op, called at time t with the arguments the scripts use
StoreAfter(st, op, expires_at, t) ==
    CASE op = "get" -> store_get(st, t)
      [] op = "set" -> store_set(st, "v", "a", t)
      [] op = "delete" -> store_delete(st, "v", t)
      [] op = "get_cookie" -> store_get_cookie(st, t)
      [] op = "set_cookie" -> store_set_cookie(st, "sid", "XYZ", t)
      [] op = "get_all_cookies" -> store_get_all_cookies(st, t)
      [] op = "clear_cookies" -> store_clear_cookies(st, t)
      [] op = "get_token" -> store_get_token(st, t)
      [] op = "set_token" -> store_set_token(st, "bearer", "T", expires_at, t)
      [] op = "get_all_tokens" -> store_get_all_tokens(st, t)
      [] op = "clear_tokens" -> store_clear_tokens(st, t)
      [] op = "is_token_expired" -> store_is_token_expired(st, t)
      [] op = "clear" -> store_clear(st, t)

\* user ids: the int 1 and the strs '1' and '2'
UserIdValues ==
    {[type |-> "int", text |-> "1"], [type |-> "str", text |-> "1"], [type |-> "str", text |-> "2"]}

\* str(user_id)
UserKey(uid) == uid.text

\* the record of a call: what was called, for whom, when, and whether it raised
Called(op, uid, raised) == [op |-> op, user |-> uid, raised |-> raised, at |-> now]

\* t = time.time() has advanced by d
Deltas == {_cleanup_interval, _cleanup_interval + 1, _default_session_timeout - _cleanup_interval}

SessTick(d) ==
    /\ nticks < MaxTicks
    /\ nticks' = nticks + 1
    /\ UNCHANGED ncalls
    /\ now' = now + d
    /\ UNCHANGED <<sessions, last_cleanup, sret, flows>>
    /\ UNCHANGED <<rpc, ramp, tested_at, current_users, bursts, assertVars>>
    /\ UNCHANGED <<engineVars, concVars, dataVars, scenVars, handleVars>>

\* every session call is counted and leaves the rest alone
SessFrame ==
    /\ ncalls < MaxSessCalls
    /\ ncalls' = ncalls + 1
    /\ UNCHANGED <<nticks, flows, rampVars, assertVars>>
    /\ UNCHANGED <<engineVars, concVars, dataVars, scenVars, handleVars>>

\* a call that begins with session = get_session(uid) and then changes the
\* store into after(store); KeyError when the sweep removed uid's own session
OnSession(op, uid, after(_)) ==
    LET ss == SessionsAfterGet(sessions, last_cleanup, UserKey(uid), now)
    IN  /\ last_cleanup' = CleanupAfterGet(last_cleanup, now)
        /\ IF UserKey(uid) \in DOMAIN ss
           THEN /\ sessions' = [ss EXCEPT ![UserKey(uid)] = after(@)]
                /\ sret' = Called(op, uid, FALSE)
           ELSE /\ sessions' = ss
                /\ sret' = Called(op, uid, TRUE)
        /\ SessFrame

\* session_manager.get_session(uid)
get_session(uid) ==
    LET same(st) == st
    IN  OnSession("get_session", uid, same)

\* session_manager.get_session(uid).<op>(...)
store_call(uid, op, expires_at) ==
    LET after(st) == StoreAfter(st, op, expires_at, now)
    IN  OnSession(op, uid, after)

\* SessionManager.clear_session(uid)
clear_session(uid) ==
    /\ sessions' = [k \in DOMAIN sessions \ {UserKey(uid)} |-> sessions[k]]
    /\ sret' = Called("clear_session", uid, FALSE)
    /\ UNCHANGED last_cleanup
    /\ SessFrame

\* SessionManager.process_response(uid, response, rules) with one rule for
\* the variable v: the value is found in the response or not
SessionManager_process_response(uid, found) ==
    LET after(st) == IF found THEN store_set(st, "v", "a", now) ELSE st
    IN  OnSession("process_response", uid, after)

\* SessionManager.auto_handle_cookies(uid, response): without a Set-Cookie
\* header get_session is not reached; with one, a KeyError of get_session is
\* caught by _parse_and_store_cookie, whose fallback calls get_session again
\* and stores the cookie in the session that call creates
SessionManager_auto_handle_cookies(uid, set_cookie) ==
    LET ss == SessionsAfterGet(sessions, last_cleanup, UserKey(uid), now)
        lc == CleanupAfterGet(last_cleanup, now)
        again == SessionsAfterGet(ss, lc, UserKey(uid), now)
    IN  /\ sret' = Called("auto_handle_cookies", uid, FALSE)
        /\ IF set_cookie
           THEN /\ last_cleanup' = lc
                /\ sessions' = [again EXCEPT ![UserKey(uid)] = store_set_cookie(@, "sid", "XYZ", now)]
           ELSE UNCHANGED <<sessions, last_cleanup>>
        /\ SessFrame

\* BearerTokenAuthenticationFlow.authenticate(engine, uid) with a token given
bearer_authenticate(uid) ==
    LET after(st) ==
            store_set(store_set(store_set_token(st, "bearer", "T", NoExpiry, now),
                                "authenticated", "True", now),
                      "auth_type", "bearer", now)
    IN  OnSession("authenticate", uid, after)

\* AuthenticationFlow.logout(uid)
logout(uid) ==
    LET after(st) == store_set(store_clear_tokens(st, now), "authenticated", "False", now)
    IN  OnSession("logout", uid, after)

\* expiry arguments of set_token: none, the falsy 0, a time
ExpiryArgs == {NoExpiry, 0, _default_session_timeout}

InitStore ==
    /\ InitEngine
    /\ IdleConc
    /\ IdleData
    /\ IdleScen
    /\ IdleRest

\* the users of the store script: the int 1 and the str '2'
StoreUsers == {uid \in UserIdValues : uid.type = "int" \/ uid.text = "2"}

NextStore ==
    \/ \E d \in Deltas : SessTick(d)
    \/ \E uid \in StoreUsers : get_session(uid)
    \/ \E uid \in StoreUsers, op \in StoreOps \ {"set_token"} : store_call(uid, op, NoExpiry)
    \/ \E uid \in StoreUsers, e \in ExpiryArgs : store_call(uid, "set_token", e)
    \/ \E uid \in StoreUsers : clear_session(uid)

SpecStore == InitStore /\ [][NextStore]_vars

\* the operations performed for a user, over ids that str() may or may not tell apart
NextIsol ==
    \/ \E d \in Deltas : SessTick(d)
    \/ \E uid \in UserIdValues, op \in {"set", "delete", "set_cookie", "set_token", "clear"} :
           store_call(uid, op, NoExpiry)
    \/ \E uid \in UserIdValues : clear_session(uid)
    \/ \E uid \in UserIdValues, found \in BOOLEAN : SessionManager_process_response(uid, found)
    \/ \E uid \in UserIdValues, sc \in BOOLEAN : SessionManager_auto_handle_cookies(uid, sc)
    \/ \E uid \in UserIdValues : bearer_authenticate(uid)
    \/ \E uid \in UserIdValues : logout(uid)

SpecIsol == InitStore /\ [][NextIsol]_vars

\* the session a call was made on is still there
CalledSession == sessions[UserKey(sret.user)]

StoreCallReturned == sret.op \in StoreOps /\ ~sret.raised /\ UserKey(sret.user) \in DOMAIN sessions

\* C25: every SessionStore read or write sets last_accessed to the current
\* time and none changes created_at, so last_accessed never decreases and is
\* never earlier than created_at
C25_EveryAccessTouches ==
    /\ [](StoreCallReturned /\ sret.at = now => CalledSession.last_accessed = now)
    /\ [][\A k \in DOMAIN sessions \cap DOMAIN sessions' :
             /\ sret'.op \in StoreOps => sessions'[k].created_at = sessions[k].created_at
             /\ sessions'[k].created_at = sessions[k].created_at
                    => sessions'[k].last_accessed >= sessions[k].last_accessed]_vars
    /\ [](\A k \in DOMAIN sessions : sessions[k].last_accessed >= sessions[k].created_at)

\* a step in which _cleanup_expired_sessions ran
SweepRan == last_cleanup' # last_cleanup

\* the sweep runs in get_session only, more than 300 s after the previous one,
\* and records its time
SweepWhenDue ==
    SweepRan => /\ sret'.op # "clear_session"
                /\ now - last_cleanup > _cleanup_interval
                /\ last_cleanup' = now

\* the sweep removes exactly the sessions whose recorded access is more than
\* 3600 s old and leaves the others as they were
SweepRemovesOld ==
    SweepRan => /\ \A k \in DOMAIN sessions :
                       k \in DOMAIN sessions' <=> now - sessions[k].last_accessed <= _default_session_timeout
                /\ \A k \in (DOMAIN sessions \cap DOMAIN sessions') \ {UserKey(sret'.user)} :
                       sessions'[k] = sessions[k]

\* without a sweep only clear_session removes a session
OnlySweepRemoves ==
    ~SweepRan => \A k \in DOMAIN sessions \ DOMAIN sessions' :
                     sret'.op = "clear_session" /\ k = UserKey(sret'.user)

\* the last call was a SessionStore method on session k, at most 3600 s ago
AccessedLately(k) ==
    /\ sret.op \in StoreOps
    /\ ~sret.raised
    /\ UserKey(sret.user) = k
    /\ now - sret.at <= _default_session_timeout

\* C26: the sweep runs only inside get_session and only when more than 300 s
\* have passed since the previous sweep; it removes exactly the sessions whose
\* last access is more than 3600 s old, keeps every other session with its
\* contents and records the sweep time; a session accessed within the last
\* 3600 s is never removed by a sweep
C26_SweepRemovesOnlyOld ==
    [][/\ SweepWhenDue
       /\ SweepRemovesOld
       /\ OnlySweepRemoves
       /\ \A k \in DOMAIN sessions : SweepRan /\ AccessedLately(k) => k \in DOMAIN sessions']_vars

\* a step that is a call on the session manager
SessCall == ncalls' # ncalls

\* what reads for uid return: its variables, cookies and tokens, those of a
\* new session when the manager holds none
ViewOf(ss, uid) ==
    LET st == IF UserKey(uid) \in DOMAIN ss THEN ss[UserKey(uid)] ELSE NewStore(0)
    IN  [data |-> st.data, expires |-> st.expires, cookies |-> st.cookies, tokens |-> st.tokens]

\* C27 as stated: for any two distinct user ids A and B, no operation
\* performed for A changes a variable, cookie or token read from B's session
C27_Original ==
    [][SessCall => \A B \in UserIdValues \ {sret'.user} : ViewOf(sessions', B) = ViewOf(sessions, B)]_vars

\* the sweep took session k, whose recorded access was more than 3600 s old
SweptOld(k) ==
    /\ SweepRan
    /\ k \notin DOMAIN sessions'
    /\ now - sessions[k].last_accessed > _default_session_timeout

\* C27 amended: for user ids A and B with str(A) # str(B), an operation
\* performed for A leaves B's session as it was, unless the sweep that A's
\* get_session ran removed it because its recorded access was more than
\* 3600 s old; and it creates no session for B
C27_Amended ==
    [][SessCall =>
         /\ \A k \in DOMAIN sessions \ {UserKey(sret'.user)} :
                \/ k \in DOMAIN sessions' /\ sessions'[k] = sessions[k]
                \/ SweptOld(k)
         /\ DOMAIN sessions' \subseteq DOMAIN sessions \cup {UserKey(sret'.user)}]_vars

\* user '2' is logged in with a bearer token, and user 1 has just logged out
C27_Witness ==
    /\ sret.op = "logout"
    /\ sret.user = [type |-> "int", text |-> "1"]
    /\ ~sret.raised
    /\ DOMAIN sessions = {"1", "2"}
    /\ sessions["1"].data["authenticated"] = "False"
    /\ sessions["2"].tokens["bearer"] = "T"
    /\ sessions["2"].data["authenticated"] = "True"

(***************************************************************************)
(* process_response with its list of extraction rules.                     *)
(***************************************************************************)
\* the outcome of a rule whose extraction raises
Raises == "<raises>"

\* a rule dict: its type, its path and the variable it names (Unset: neither
\* 'variable' nor 'name' is given)
RuleFound == [type |-> "json_path", path |-> "token", variable |-> "v"]
RuleNothing == [type |-> "json_path", path |-> "missing", variable |-> "v"]
RuleFails == [type |-> "xpath", path |-> "token", variable |-> "v"]
RuleStatus == [type |-> "status_code", path |-> "", variable |-> "v"]
RuleUnnamed == [type |-> "json_path", path |-> "token", variable |-> Unset]

RuleValues == {RuleFound, RuleNothing, RuleFails, RuleStatus, RuleUnnamed}

\* lists of at most two rules
RuleLists == {<< >>} \cup {<<r>> : r \in RuleValues} \cup {<<r, q>> : r, q \in RuleValues}

\* the response dict: body '{"token": "T1"}', status_code 200
RuleResponse == [status_code |-> "200", body |-> [token |-> "T1"]]

\* SessionManager._extract_value_by_rule: the value, None, or ValueError
ExtractByRule(resp, rule) ==
    CASE rule.type = "json_path" -> extract_json_path(resp.body, rule.path)
      [] rule.type = "status_code" -> resp.status_code
      [] OTHER -> Raises

\* the body of the loop for one rule: try / except Exception around the
\* extraction and session.set
RuleStep(st, resp, rule, t) ==
    LET value == ExtractByRule(resp, rule)
    IN  IF value \notin {Raises, Unset} /\ rule.variable # Unset
        THEN store_set(st, rule.variable, value, t)
        ELSE st

\* for rule in extract_rules, from rules[k] on
RECURSIVE RuleLoop(_, _, _, _, _)
RuleLoop(st, resp, rules, k, t) ==
    IF k > Len(rules)
    THEN st
    ELSE RuleLoop(RuleStep(st, resp, rules[k], t), resp, rules, k + 1, t)

\* SessionManager.process_response(uid, response, extract_rules): an empty
\* list returns at once; otherwise get_session, outside the try, raises
\* KeyError when the sweep has just removed uid's own session
process_response_rules(uid, resp, rules) ==
    LET ss == SessionsAfterGet(sessions, last_cleanup, UserKey(uid), now)
        call == [Called("process_response", uid, FALSE) EXCEPT !.at = now] @@
                [rules |-> rules, response |-> resp,
                 before |-> ViewOf(sessions, uid).data]
    IN  /\ IF rules = << >>
           THEN /\ sret' = call
                /\ UNCHANGED <<sessions, last_cleanup>>
           ELSE /\ last_cleanup' = CleanupAfterGet(last_cleanup, now)
                /\ IF UserKey(uid) \in DOMAIN ss
                   THEN /\ sessions' = [ss EXCEPT ![UserKey(uid)] = RuleLoop(@, resp, rules, 1, now)]
                        /\ sret' = call
                   ELSE /\ sessions' = ss
                        /\ sret' = [call EXCEPT !.raised = TRUE]
        /\ SessFrame

\* the user of the rules script
RuleUser == [type |-> "int", text |-> "1"]

NextRules ==
    \/ \E d \in Deltas : SessTick(d)
    \/ \E rules \in RuleLists : process_response_rules(RuleUser, RuleResponse, rules)

SpecRules == InitStore /\ [][NextRules]_vars

\* the rules of the call that name variable x and extract a value
Successful(x) ==
    {k \in 1..Len(sret.rules) :
        /\ sret.rules[k].variable = x
        /\ ExtractByRule(sret.response, sret.rules[k]) \notin {Raises, Unset}}

\* the value the call should leave in variable x
LaterWins(x) ==
    IF Successful(x) = {}
    THEN sret.before[x]
    ELSE LET latest == CHOOSE k \in Successful(x) : \A j \in Successful(x) : j <= k
         IN  ExtractByRule(sret.response, sret.rules[latest])

\* C28: process_response never raises; the rules are applied in list order,
\* a rule that fails or extracts nothing leaves its variable unchanged and
\* does not stop the rules after it, and of two rules naming one variable the
\* later successful one determines the value
C28_RulesNeverRaise ==
    sret.op = "process_response" =>
        /\ ~sret.raised
        /\ \A x \in StoreVarKeys : ViewOf(sessions, sret.user).data[x] = LaterWins(x)

(***************************************************************************)
(* JSONPathAssertion.check: a JSON value is a number, null, an array or an *)
(* object; a path is the list of its dot-separated parts, each a key, with *)
(* the text between '[' and ']' when there is one.                         *)
(***************************************************************************)
JNum(n) == [kind |-> "num", num |-> n]
JNull == [kind |-> "null"]
JArr(items) == [kind |-> "arr", items |-> items]
JObj(members) == [kind |-> "obj", members |-> members]

\* json.loads(body) fails
NotJson == [kind |-> "invalid"]

\* an exception leaving _get_nested_value
Raise(exc) == [kind |-> "raise", exc |-> exc]

\* bodies: 'oops', '{"a": 1}', '{"items": [{"id": 1}]}', '{"a": null}', '5'
JsonBodies ==
    {NotJson,
     JObj([a |-> JNum(1)]),
     JObj([items |-> JArr(<<JObj([id |-> JNum(1)])>>)]),
     JObj([a |-> JNull]),
     JNum(5)}

NoIndex == "<no index>"
Part(key, index) == [key |-> key, index |-> index]

\* paths: a, b, a.b, a[0], items[0].id, items[1].id, items[x].id, items.id, [0]
JsonPaths ==
    {<<Part("a", NoIndex)>>,
     <<Part("b", NoIndex)>>,
     <<Part("a", NoIndex), Part("b", NoIndex)>>,
     <<Part("a", "0")>>,
     <<Part("items", "0"), Part("id", NoIndex)>>,
     <<Part("items", "1"), Part("id", NoIndex)>>,
     <<Part("items", "x"), Part("id", NoIndex)>>,
     <<Part("items", NoIndex), Part("id", NoIndex)>>,
     <<Part("", "0")>>}

\* int(index_part.rstrip(']')) for the texts that are numbers
IndexTexts == {"0", "1"}
IntOf(text) == IF text = "0" THEN 0 ELSE 1

\* current[key]
Subscript(current, key) ==
    CASE current.kind = "raise" -> current
      [] current.kind = "obj" ->
            IF key \in DOMAIN current.members THEN current.members[key] ELSE Raise("KeyError")
      [] OTHER -> Raise("TypeError")

\* current[index]
SubscriptInt(current, index) ==
    CASE current.kind = "raise" -> current
      [] current.kind = "arr" ->
            IF index < Len(current.items) THEN current.items[index + 1] ELSE Raise("IndexError")
      [] current.kind = "obj" -> Raise("KeyError")
      [] OTHER -> Raise("TypeError")

\* one part of the path
NestedStep(current, part) ==
    CASE current.kind = "raise" -> current
      [] part.index = NoIndex -> Subscript(current, part.key)
      [] part.index \notin IndexTexts -> Raise("ValueError")
      [] part.key = "" -> SubscriptInt(current, IntOf(part.index))
      [] OTHER -> SubscriptInt(Subscript(current, part.key), IntOf(part.index))

\* JSONPathAssertion._get_nested_value from parts[k] on
RECURSIVE _get_nested_value(_, _, _)
_get_nested_value(current, parts, k) ==
    IF k > Len(parts)
    THEN current
    ELSE _get_nested_value(NestedStep(current, parts[k]), parts, k + 1)

\* expected_value is None
NoExpected == [kind |-> "none"]

\* what a call leaves: a returned boolean or an exception
CheckReturned(b) == [raised |-> FALSE, value |-> b, exc |-> "none"]
CheckRaised(exc) == [raised |-> TRUE, value |-> FALSE, exc |-> exc]

\* the exceptions JSONPathAssertion.check catches
CaughtByCheck == {"KeyError", "TypeError"}

\* JSONPathAssertion(path, expected_value, exists).check({'body': body})
JSONPathAssertion_check(body, path, expected_value, exists) ==
    LET value == _get_nested_value(body, path, 1)
    IN  CASE body = NotJson -> CheckReturned(~exists)
          [] value.kind = "raise" /\ value.exc \in CaughtByCheck -> CheckReturned(~exists)
          [] value.kind = "raise" -> CheckRaised(value.exc)
          [] ~exists -> CheckReturned(value = JNull)
          [] expected_value # NoExpected -> CheckReturned(value = expected_value)
          [] OTHER -> CheckReturned(value # JNull)

JsonChecks ==
    [op : {"JSONPathAssertion"}, body : JsonBodies, path : JsonPaths,
     expected_value : {NoExpected, JNum(1), JNum(2)}, exists : BOOLEAN]

InitJson ==
    /\ InitEngine
    /\ IdleConc
    /\ IdleData
    /\ IdleScen
    /\ now = 0
    /\ IdleRamp
    /\ IdleSess
    /\ given \in JsonChecks
    /\ verdict = NoCheck

check ==
    /\ given.op = "JSONPathAssertion"
    /\ verdict = NoCheck
    /\ verdict' = [op |-> "check"] @@
                  JSONPathAssertion_check(given.body, given.path, given.expected_value, given.exists)
    /\ UNCHANGED <<given, rampVars, sessVars>>
    /\ UNCHANGED <<engineVars, concVars, dataVars, scenVars, handleVars>>

NextJson == check

SpecJson == InitJson /\ [][NextJson]_vars

\* the path of the assertion under check does not resolve in its body
Unresolved ==
    \/ given.body = NotJson
    \/ _get_nested_value(given.body, given.path, 1).kind = "raise"

\* C29: JSONPathAssertion.check returns a boolean and never raises, for every
\* body and path; when the path does not resolve (body not JSON, key absent,
\* index out of range, indexing into a scalar, malformed index) a rule with
\* exists=False passes and a rule with an expected value fails
C29_CheckNeverRaises ==
    verdict.op = "check" =>
        /\ ~verdict.raised
        /\ Unresolved /\ ~given.exists => verdict.value
        /\ Unresolved /\ given.exists /\ given.expected_value # NoExpected => ~verdict.value

(***************************************************************************)
(* AssertionGroup.check_all and PerformanceAssertionGroup.check_all_metrics.*)
(* A member is what its check does on the response or metrics at hand:     *)
(* it passes, fails or raises.                                             *)
(***************************************************************************)
MemberOutcomes == {"pass", "fail", "raise"}

MemberLists == UNION {[1..n -> MemberOutcomes] : n \in 0..MaxMembers}

Logics == {"AND", "OR", "XOR"}

\* the state of the loop: members evaluated, failures recorded, results, and
\* whether a member raised
LoopStart == [evaluated |-> << >>, failed |-> << >>, results |-> << >>, raised |-> FALSE]

\* the loop that stops at the first member that fails
RECURSIVE GroupLoop_ShortCircuit(_, _, _)
GroupLoop_ShortCircuit(acc, assertions, k) ==
    IF k > Len(assertions)
    THEN acc
    ELSE LET seen == [acc EXCEPT !.evaluated = Append(@, k)]
         IN  CASE assertions[k] = "raise" -> [seen EXCEPT !.raised = TRUE]
               [] assertions[k] = "fail" ->
                     [seen EXCEPT !.failed = Append(@, k), !.results = Append(@, FALSE)]
               [] OTHER ->
                     GroupLoop_ShortCircuit([seen EXCEPT !.results = Append(@, TRUE)], assertions, k + 1)

\* for assertion in self.assertions, from assertions[k] on
RECURSIVE GroupLoop(_, _, _)
GroupLoop(acc, assertions, k) ==
    IF k > Len(assertions)
    THEN acc
    ELSE LET seen == [acc EXCEPT !.evaluated = Append(@, k)]
         IN  CASE assertions[k] = "raise" -> [seen EXCEPT !.raised = TRUE]
               [] assertions[k] = "fail" ->
                     GroupLoop([seen EXCEPT !.failed = Append(@, k), !.results = Append(@, FALSE)],
                               assertions, k + 1)
               [] OTHER ->
                     GroupLoop([seen EXCEPT !.results = Append(@, TRUE)], assertions, k + 1)

\* all(results) / any(results)
AllOf(results) == \A i \in 1..Len(results) : results[i]
AnyOf(results) == \E i \in 1..Len(results) : results[i]

\* the loop, then the return: ValueError for a logic that is neither AND nor OR
GroupCheck(logic, assertions) ==
    LET done == GroupLoop(LoopStart, assertions, 1)
        out == [evaluated |-> done.evaluated, failed |-> done.failed]
    IN  CASE done.raised -> out @@ [raised |-> TRUE, value |-> FALSE]
          [] logic = "AND" -> out @@ [raised |-> FALSE, value |-> AllOf(done.results)]
          [] logic = "OR" -> out @@ [raised |-> FALSE, value |-> AnyOf(done.results)]
          [] OTHER -> out @@ [raised |-> TRUE, value |-> FALSE]

Groups ==
    [op : {"AssertionGroup", "PerformanceAssertionGroup"}, logic : Logics, assertions : MemberLists]

InitGroup ==
    /\ InitEngine
    /\ IdleConc
    /\ IdleData
    /\ IdleScen
    /\ now = 0
    /\ IdleRamp
    /\ IdleSess
    /\ given \in Groups
    /\ verdict = NoCheck

AssertFrame ==
    /\ UNCHANGED <<given, rampVars, sessVars>>
    /\ UNCHANGED <<engineVars, concVars, dataVars, scenVars, handleVars>>

\* AssertionGroup.check_all(response)
check_all ==
    /\ given.op = "AssertionGroup"
    /\ verdict = NoCheck
    /\ verdict' = [op |-> "check_all"] @@ GroupCheck(given.logic, given.assertions)
    /\ AssertFrame

\* PerformanceAssertionGroup.check_all_metrics(metrics)
check_all_metrics ==
    /\ given.op = "PerformanceAssertionGroup"
    /\ verdict = NoCheck
    /\ verdict' = [op |-> "check_all_metrics"] @@ GroupCheck(given.logic, given.assertions)
    /\ AssertFrame

NextGroup ==
    \/ check_all
    \/ check_all_metrics

SpecGroup == InitGroup /\ [][NextGroup]_vars

\* an AND group has been checked
AndChecked == verdict.op \in {"check_all", "check_all_metrics"} /\ given.logic = "AND"

\* the members of the group under check that fail
Failing == {k \in 1..Len(given.assertions) : given.assertions[k] = "fail"}

NoneRaises == \A k \in 1..Len(given.assertions) : given.assertions[k] # "raise"

ResetFailed_Kept(previous) == previous

\* self.failed_assertions = []
ResetFailed(previous) == << >>

\* failed_assertions of the group before the call
FailedBefore == IF verdict = NoCheck THEN << >> ELSE verdict.failed

ChecksMade == IF verdict = NoCheck THEN 0 ELSE verdict.calls

PerfGroups == {g \in Groups : g.op = "PerformanceAssertionGroup"}

InitPerf ==
    /\ InitEngine
    /\ IdleConc
    /\ IdleData
    /\ IdleScen
    /\ now = 0
    /\ IdleRamp
    /\ IdleSess
    /\ given \in PerfGroups
    /\ verdict = NoCheck

\* PerformanceAssertionGroup.check_all_metrics(metrics), on metrics for which
\* the members do what outcomes says
check_all_metrics_on(outcomes) ==
    LET result == GroupCheck(given.logic, outcomes)
    IN  /\ Len(outcomes) = Len(given.assertions)
        /\ ChecksMade < MaxChecks
        /\ given' = [given EXCEPT !.assertions = outcomes]
        /\ verdict' = [op |-> "check_all_metrics", calls |-> ChecksMade + 1,
                       evaluated |-> result.evaluated,
                       failed |-> ResetFailed(FailedBefore) \o result.failed,
                       raised |-> result.raised, value |-> result.value]
        /\ UNCHANGED <<rampVars, sessVars>>
        /\ UNCHANGED <<engineVars, concVars, dataVars, scenVars, handleVars>>

NextPerf == \E outcomes \in MemberLists : check_all_metrics_on(outcomes)

SpecPerf == InitPerf /\ [][NextPerf]_vars

\* the members that fail on the metrics of the latest call, in insertion order
RECURSIVE FailingFrom(_)
FailingFrom(k) ==
    IF k > Len(given.assertions)
    THEN << >>
    ELSE (IF given.assertions[k] = "fail" THEN <<k>> ELSE << >>) \o FailingFrom(k + 1)

Passing == {k \in 1..Len(given.assertions) : given.assertions[k] = "pass"}

\* C31: after each check_all_metrics call, failed_assertions is exactly the
\* list, in insertion order, of the members that fail on that call's metrics,
\* for AND and for OR, whatever an earlier call recorded; the result is True
\* iff all (AND) or at least one (OR) member passes
C31_FailedListPerCall ==
    verdict.op = "check_all_metrics" /\ ~verdict.raised =>
        /\ verdict.failed = FailingFrom(1)
        /\ given.logic = "AND" => (verdict.value <=> Passing = 1..Len(given.assertions))
        /\ given.logic = "OR" => (verdict.value <=> Passing # {})

\* a second call on an OR group that passes overall, after a call in which
\* other members failed
C31_Witness ==
    /\ verdict.op = "check_all_metrics"
    /\ verdict.calls = 2
    /\ given.logic = "OR"
    /\ given.assertions = <<"pass", "fail", "pass">>
    /\ verdict.failed = <<2>>
    /\ verdict.value

(***************************************************************************)
(* Aggregate assertions on the snapshot Engine.get_metrics() returns.      *)
(* Rates are compared as the code computes them, (part / total) * 100      *)
(* against the threshold; for the totals and the whole-number thresholds   *)
(* used here that is the comparison part * 100 with threshold * total.     *)
(***************************************************************************)
\* metrics.get(key, default)
MetricsGet(m, key, default) == IF key \in DOMAIN m THEN m[key] ELSE default

\* AverageResponseTimeAssertion(max_avg_ms).check_metrics(m)
AverageResponseTimeAssertion_check_metrics(max_avg_ms, m) ==
    MetricsGet(m, "avg_response_time_ms", 0) <= max_avg_ms

\* ErrorRateAssertion(max_error_rate).check_metrics(m)
ErrorRateAssertion_check_metrics(max_error_rate, m) ==
    LET total_requests == MetricsGet(m, "total_requests", 0)
        failed_requests == MetricsGet(m, "failed_requests", 0)
    IN  IF total_requests = 0
        THEN TRUE
        ELSE failed_requests * 100 <= max_error_rate * total_requests

\* the success rate of an empty snapshot taken as 0
SuccessRateAssertion_check_metrics_ZeroRate(min_success_rate, m) ==
    LET total_requests == MetricsGet(m, "total_requests", 0)
        successful_requests == MetricsGet(m, "successful_requests", 0)
    IN  IF total_requests = 0
        THEN 0 >= min_success_rate
        ELSE successful_requests * 100 >= min_success_rate * total_requests

\* SuccessRateAssertion(min_success_rate).check_metrics(m)
SuccessRateAssertion_check_metrics(min_success_rate, m) ==
    LET total_requests == MetricsGet(m, "total_requests", 0)
        successful_requests == MetricsGet(m, "successful_requests", 0)
    IN  IF total_requests = 0
        THEN TRUE
        ELSE successful_requests * 100 >= min_success_rate * total_requests

\* TotalRequestsAssertion(min_requests).check_metrics(m)
TotalRequestsAssertion_check_metrics(min_requests, m) ==
    MetricsGet(m, "total_requests", 0) >= min_requests

\* the convenience constructors
AggregateKinds ==
    {"avg_response_time_under", "error_rate_below", "success_rate_at_least", "total_requests_at_least"}

\* thresholds: below every value, ordinary, and above every rate
Thresholds == {-1, 0, 1, 2, 50, 100, 101}

\* assertion.check_metrics(m)
PerformanceAssertion_check_metrics(assertion, m) ==
    CASE assertion.op = "avg_response_time_under" ->
            AverageResponseTimeAssertion_check_metrics(assertion.threshold, m)
      [] assertion.op = "error_rate_below" ->
            ErrorRateAssertion_check_metrics(assertion.threshold, m)
      [] assertion.op = "success_rate_at_least" ->
            SuccessRateAssertion_check_metrics(assertion.threshold, m)
      [] assertion.op = "total_requests_at_least" ->
            TotalRequestsAssertion_check_metrics(assertion.threshold, m)

InitAggregate ==
    /\ InitEngine
    /\ IdleConc
    /\ IdleData
    /\ IdleScen
    /\ now = 0
    /\ IdleRamp
    /\ IdleSess
    /\ given \in [op : AggregateKinds, threshold : Thresholds]
    /\ verdict = NoCheck

\* given.check_metrics(engine.get_metrics()): the snapshot is the one the
\* latest get_metrics call returned
check_metrics ==
    /\ verdict = NoCheck
    /\ last.op = "get_metrics"
    /\ verdict' = [op |-> "check_metrics", metrics |-> last.metrics,
                   value |-> PerformanceAssertion_check_metrics(given, last.metrics)]
    /\ UNCHANGED <<given, rampVars, sessVars>>
    /\ UNCHANGED <<engineVars, concVars, dataVars, scenVars, handleVars>>

\* a script: requests, then the snapshot, then the assertion on it
NextAggregate ==
    \/ verdict = NoCheck /\ execute_request /\ UNCHANGED handleVars
    \/ verdict = NoCheck /\ reset_metrics /\ UNCHANGED handleVars
    \/ verdict = NoCheck /\ get_metrics /\ UNCHANGED handleVars
    \/ check_metrics

SpecAggregate == InitAggregate /\ [][NextAggregate]_vars

\* C32: on a snapshot with total_requests = 0, success_rate_at_least(X) and
\* error_rate_below(X) pass for every X, and total_requests_at_least(X) fails
\* for every X > 0
C32_ZeroRequests ==
    verdict.op = "check_metrics" /\ verdict.metrics.total_requests = 0 =>
        /\ given.op \in {"success_rate_at_least", "error_rate_below"} => verdict.value
        /\ given.op = "total_requests_at_least" /\ given.threshold > 0 => ~verdict.value

\* success_rate_at_least(101) has passed on the snapshot of an engine that made no request
C32_Witness ==
    /\ verdict.op = "check_metrics"
    /\ verdict.metrics.total_requests = 0
    /\ given = [op |-> "success_rate_at_least", threshold |-> 101]
    /\ verdict.value

\* C33: the snapshot of Engine.get_metrics() carries the derived average:
\* after recorded requests avg_response_time_under(L) on it is False when the
\* mean response time exceeds L ms and True when the mean is at most L
C33_AverageNotVacuous ==
    /\ verdict.op = "check_metrics"
    /\ given.op = "avg_response_time_under"
    /\ verdict.metrics.total_requests > 0
    => (verdict.value <=>
            verdict.metrics.total_response_time_ms <= given.threshold * verdict.metrics.total_requests)

(***************************************************************************)
(* Compilation that fails: get_all_user_data raises ValueError for a       *)
(* source with no rows and for an exhausted unique source, and             *)
(* build_requests has no handler for it.                                   *)
(***************************************************************************)
\* get_data_for_user raises: 'No data available' / 'No more unique data available'
CompileFails ==
    /\ sources # {}
    /\ \/ Len(data) = 0
       \/ strategy = "unique" /\ Cardinality(used_indices) >= Len(data)

\* what a call whose compilation raised leaves behind
CompileRaised(op, user_id) ==
    [op |-> op, user_id |-> user_id, raised |-> TRUE, before |-> metrics, metrics |-> metrics]

\* Scenario.build_requests(u) when get_all_user_data raises: the exception
\* leaves build_requests; nothing is compiled and no operation is recorded
build_requests_raises(u) ==
    /\ CompileFails
    /\ last' = CompileRaised("build_requests", u)
    /\ UNCHANGED <<metrics, tcp_sockets, udp_sockets, tcp_hist, udp_hist>>
    /\ hook_log' = AfterSetup(hook_log, u)
    /\ UNCHANGED <<variables, requests, compiled, vu_pos, sess_vars, sess_cookies, response, last_sent,
                   sources, compiled_for, hooks>>
    /\ UNCHANGED <<concVars, dataVars, handleVars, restVars>>

\* Engine.run_scenario when scenario.build_requests() raises: the exception
\* leaves run_scenario before start_load_test is reached
run_scenario_raises(users, duration) ==
    /\ CompileFails
    /\ last' = CompileRaised("run_scenario", 0)
    /\ UNCHANGED <<metrics, tcp_sockets, udp_sockets, tcp_hist, udp_hist>>
    /\ hook_log' = AfterSetup(hook_log, 0)
    /\ UNCHANGED <<variables, requests, compiled, vu_pos, sess_vars, sess_cookies, response, last_sent,
                   sources, compiled_for, hooks>>
    /\ UNCHANGED <<concVars, dataVars, handleVars, restVars>>

InitCompile ==
    /\ InitEngine
    /\ IdleConc
    /\ IdleRest
    /\ strategy \in {"sequential", "unique"}
    /\ \E n \in 0..MaxRows : data = RunRows(n, "bob")
    /\ current_index = 0
    /\ used_indices = {}
    /\ dlock = "free"
    /\ dpc = [t \in DThreads |-> "idle"]
    /\ duser = [t \in DThreads |-> 0]
    /\ dindex = [t \in DThreads |-> 0]
    /\ served = <<>>
    /\ variables = [n \in RunVarNames |-> Unset]
    /\ requests = [i \in 1..MaxScOps |-> RunRequests[(i % 2) + 1]]
    /\ sources \in {{}, {"users"}}
    /\ compiled = [u \in VUs |-> <<>>]
    /\ compiled_for = [u \in VUs |-> NotCompiled]
    /\ hooks \in [setup : BOOLEAN, teardown : BOOLEAN]
    /\ hook_log = << >>
    /\ vu_pos = [u \in VUs |-> 0]
    /\ sess_vars = [u \in VUs |-> [n \in SessKeys |-> Unset]]
    /\ sess_cookies = [u \in VUs |-> [i \in 1..Len(CookieNames) |-> Unset]]
    /\ response = [u \in VUs |-> NoResponse]
    /\ last_sent = [u \in VUs |-> NoRequest]

\* the hook history is capped
CanHook == Len(hook_log) < MaxHooks

NextCompile ==
    \/ \E users \in {1, 2} : CanHook /\ run_scenario(users, 60)
    \/ \E users \in {1, 2} : CanHook /\ run_scenario_raises(users, 60)
    \/ \E u \in VUs : CanHook /\ build_requests(u)
    \/ \E u \in VUs : CanHook /\ build_requests_raises(u)
    \/ \E u \in VUs : execute_compiled(u)

SpecCompile == InitCompile /\ [][NextCompile]_vars

\* C34: compiling a scenario for a virtual user does not raise when the
\* compilation fails (exhausted unique source, source with zero rows): the
\* failure is surfaced as a failed first operation and the worker goes on
C34_CompileFailureIsFailedOp ==
    last.op \in {"run_scenario", "build_requests"} /\ "raised" \in DOMAIN last =>
        /\ ~last.raised
        /\ last.metrics.failed_requests = last.before.failed_requests + 1


\* ---------------------------------------------------------------------------
\* Scenario hooks (scenarios.py 132-158)

\* how often a hook was called with this user_id
HookCalls(hook, u) ==
    Cardinality({k \in 1..Len(hook_log) : hook_log[k] = [hook |-> hook, user_id |-> u]})

\* the virtual user has executed the last operation of its compiled list
IterationDone(u) ==
    /\ compiled_for[u] # NotCompiled
    /\ Len(compiled[u]) > 0
    /\ vu_pos[u] = Len(compiled[u])

\* C35: for each virtual-user iteration of a scenario with both hooks set,
\* the setup hook has run exactly once for it and, once its last operation
\* is executed, the teardown hook has run exactly once.
C35_HooksOncePerIteration ==
    (hooks.setup /\ hooks.teardown) =>
        \A u \in VUs : IterationDone(u) =>
            /\ HookCalls("setup", u) = 1
            /\ HookCalls("teardown", u) = 1


\* ---------------------------------------------------------------------------
\* Load patterns (utils.py 11-35, 237-271)

MaxSeconds == 12    \* longest ramp duration in a pattern string
step_duration == 5  \* default of ramp_up

\* a pattern string is its sequence of characters
DigitChars == <<"0", "1", "2", "3", "4", "5", "6", "7", "8", "9">>

\* str(n) for 0 <= n < 100
Str(n) == IF n < 10 THEN <<DigitChars[n + 1]>> ELSE <<DigitChars[(n \div 10) + 1], DigitChars[(n % 10) + 1]>>

DigitValue(c) == CHOOSE d \in 0..9 : DigitChars[d + 1] = c

\* int(text) of a decimal text
RECURSIVE ParseInt(_)
ParseInt(text) ==
    IF Len(text) = 0 THEN 0
    ELSE 10 * ParseInt(SubSeq(text, 1, Len(text) - 1)) + DigitValue(text[Len(text)])

\* str.lower() on the letters that occur
Lower(text) == [k \in 1..Len(text) |-> IF text[k] = "R" THEN "r" ELSE text[k]]

\* pattern_string.split(':')
RECURSIVE Split(_)
Split(text) ==
    IF \A k \in 1..Len(text) : text[k] # ":"
    THEN <<text>>
    ELSE LET at == CHOOSE k \in 1..Len(text) : text[k] = ":" /\ \A j \in 1..(k - 1) : text[j] # ":"
         IN  <<SubSeq(text, 1, at - 1)>> \o Split(SubSeq(text, at + 1, Len(text)))

\* int(x) of the quotient num / den, den > 0: truncation towards zero
Trunc(num, den) == IF num >= 0 THEN num \div den ELSE -((-num) \div den)

\* the stages ramp_up(start_users, end_users, duration) yields when iterated;
\* current_users after k additions of (end_users - start_users) / steps is
\* start_users + k * (end_users - start_users) / steps, exact for steps <= 2
ramp_up(start_users, end_users, duration) ==
    LET steps == duration \div step_duration
        remaining_time == duration % step_duration
    IN  IF steps = 0
        THEN Raise("ZeroDivisionError")
        ELSE [kind |-> "stages",
              stages |->
                [k \in 1..steps |->
                    [users |-> Trunc(start_users * steps + (k - 1) * (end_users - start_users), steps),
                     duration |-> step_duration]]
                \o (IF remaining_time > 0
                    THEN <<[users |-> end_users, duration |-> remaining_time]>>
                    ELSE << >>)]

PatternUsers == {0, 1, 10}
RampWords == {<<"r", "a", "m", "p">>, <<"R", "a", "m", "p">>}

\* 'ramp:START_USERS:END_USERS:SECONDS'
PatternString(word, start_users, end_users, seconds) ==
    word \o <<":">> \o Str(start_users) \o <<":">> \o Str(end_users) \o <<":">> \o Str(seconds)

InitPattern ==
    /\ InitEngine
    /\ IdleConc
    /\ IdleData
    /\ IdleScen
    /\ now = 0
    /\ IdleRamp
    /\ IdleSess
    /\ \E word \in RampWords, start_users \in PatternUsers, end_users \in PatternUsers, seconds \in 1..MaxSeconds :
          given = [op |-> "pattern", pattern_string |-> PatternString(word, start_users, end_users, seconds),
                   start_users |-> start_users, end_users |-> end_users, seconds |-> seconds]
    /\ verdict = NoCheck

\* parse_load_pattern(pattern_string): the generator is created, nothing has run yet
parse_load_pattern ==
    /\ given.op = "pattern"
    /\ verdict = NoCheck
    /\ LET parts == Split(given.pattern_string)
           pattern_type == Lower(parts[1])
       IN  verdict' =
             IF pattern_type = <<"r", "a", "m", "p">>
             THEN [op |-> "parse_load_pattern", kind |-> "generator",
                   start_users |-> ParseInt(parts[2]), end_users |-> ParseInt(parts[3]), duration |-> ParseInt(parts[4])]
             ELSE [op |-> "parse_load_pattern", kind |-> "raise", exc |-> "ValueError"]
    /\ AssertFrame

\* list(pattern): the caller iterates the generator
iterate_pattern ==
    /\ verdict.op = "parse_load_pattern"
    /\ verdict.kind = "generator"
    /\ verdict' = [op |-> "stages",
                   result |-> ramp_up(verdict.start_users, verdict.end_users, verdict.duration)]
    /\ AssertFrame

NextPattern == parse_load_pattern \/ iterate_pattern

SpecPattern == InitPattern /\ [][NextPattern]_vars

\* C36: for every START_USERS, END_USERS and SECONDS >= 1 the stages of
\* 'ramp:START_USERS:END_USERS:SECONDS' are listed without error, there is at
\* least one, the first has START_USERS users and the last has END_USERS users.
C36_RampReachesEnd ==
    (given.op = "pattern" /\ verdict.op = "stages") =>
        /\ verdict.result.kind = "stages"
        /\ Len(verdict.result.stages) > 0
        /\ verdict.result.stages[1].users = given.start_users
        /\ verdict.result.stages[Len(verdict.result.stages)].users = given.end_users


\* ---------------------------------------------------------------------------
\* get_session and the sweep it runs (session_manager.py 230-242, 259-272)

\* C37: get_session(user_id) returns a SessionStore that is registered under
\* str(user_id) when the call returns, in every reachable state and for every
\* clock value, also when the sweep runs during the call while the user's
\* existing session is older than the session timeout.
C37_GetSessionReturnsRegistered ==
    sret.op = "get_session" =>
        /\ ~sret.raised
        /\ UserKey(sret.user) \in DOMAIN sessions


\* ---------------------------------------------------------------------------
\* Token refresh (session_manager.py 80-105; authentication.py 125-144)

\* session_manager.get_session(uid).set_token('bearer', 'T', expires_at);
\* the call records the expiry argument it was given
set_token(uid, expires_at) ==
    LET ss == SessionsAfterGet(sessions, last_cleanup, UserKey(uid), now)
    IN  /\ last_cleanup' = CleanupAfterGet(last_cleanup, now)
        /\ IF UserKey(uid) \in DOMAIN ss
           THEN /\ sessions' = [ss EXCEPT ![UserKey(uid)] = store_set_token(@, "bearer", "T", expires_at, now)]
                /\ sret' = [expires_at |-> expires_at] @@ Called("set_token", uid, FALSE)
           ELSE /\ sessions' = ss
                /\ sret' = [expires_at |-> expires_at] @@ Called("set_token", uid, TRUE)
        /\ SessFrame

TokenUser == CHOOSE uid \in UserIdValues : uid.type = "int"

NextToken ==
    \/ \E d \in Deltas : SessTick(d)
    \/ \E e \in ExpiryArgs : set_token(TokenUser, e)
    \/ \E op \in {"get", "clear_tokens", "is_token_expired"} : store_call(TokenUser, op, NoExpiry)
    \/ bearer_authenticate(TokenUser)
    \/ SessionManager_prepare_request_headers(UserKey(TokenUser), NoHeaders)

SpecToken == InitStore /\ [][NextToken]_vars

\* the latest call stored a bearer token without an expiry
StoredWithoutExpiry ==
    \/ sret.op = "set_token" /\ ~sret.raised /\ sret.expires_at = NoExpiry
    \/ sret.op = "authenticate" /\ ~sret.raised

\* C38: a token stored by set_token(kind, value) without an expiry is not
\* reported expired, also after an earlier set_token(kind, old, expires_at)
\* whose expiry has passed, with or without a clear_tokens in between, so
\* prepare_request_headers attaches the new bearer token.
C38_TokenWithoutExpiryIsFresh ==
    StoredWithoutExpiry =>
        /\ ~is_token_expired(sessions[UserKey(sret.user)], "bearer", now)
        /\ "Authorization" \in DOMAIN PrepareHeaders(sessions[UserKey(sret.user)], NoHeaders, now)


\* ---------------------------------------------------------------------------
\* Request counting of the protocol operations (engine.py 281-338, 454-559)

\* C39: each call of an engine protocol operation (execute_request, tcp_*,
\* udp_*, mqtt_*) increases total_requests by exactly 1, whatever the
\* registry state: also a udp_send on a key without an endpoint and a
\* tcp_send, tcp_receive or tcp_disconnect on a key without a connection.
C39_EachCallCountsOnce ==
    [][last'.op \notin {"none", "get_metrics", "reset_metrics"}
          => metrics'.total_requests = metrics.total_requests + 1]_vars


\* ---------------------------------------------------------------------------
\* AuthenticationManager (authentication.py 531-567)

FlowNames == {"bearer", "api_key"}

\* AuthenticationManager.register_flow(name, flow)
register_flow(name) ==
    /\ flows' = flows \cup {name}
    /\ UNCHANGED <<sessions, last_cleanup, sret, nticks, ncalls>>
    /\ UNCHANGED <<rampVars, assertVars>>
    /\ UNCHANGED <<engineVars, concVars, dataVars, scenVars, handleVars>>

\* APIKeyAuthenticationFlow.authenticate(engine, uid)
api_key_authenticate(uid) ==
    LET after(st) ==
            store_set(store_set(store_set(store_set_token(st, "api_key", "K", NoExpiry, now),
                                          "api_key_header", "X-API-Key", now),
                                "authenticated", "True", now),
                      "auth_type", "api_key", now)
    IN  OnSession("authenticate", uid, after)

\* flow.authenticate(engine, uid) of the flow kept under this name
flow_authenticate(flow_name, uid) ==
    IF flow_name = "bearer" THEN bearer_authenticate(uid) ELSE api_key_authenticate(uid)

\* AuthenticationManager.authenticate(flow_name, engine, uid)
AuthenticationManager_authenticate(flow_name, uid) ==
    IF flow_name \notin flows
    THEN /\ sret' = [exc |-> "AuthenticationError"] @@ Called("manager_authenticate", uid, TRUE)
         /\ UNCHANGED <<sessions, last_cleanup>>
         /\ SessFrame
    ELSE flow_authenticate(flow_name, uid)

\* AuthenticationFlow.logout on the store, once per flow of the loop
RECURSIVE LogoutTimes(_, _, _)
LogoutTimes(st, n, t) ==
    IF n = 0 THEN st
    ELSE LogoutTimes(store_set(store_clear_tokens(st, t), "authenticated", "False", t), n - 1, t)

\* AuthenticationManager.logout(uid, flow_name): the named flow when it is
\* registered, every registered flow otherwise
AuthenticationManager_logout(uid, flow_name) ==
    LET n == IF flow_name # "" /\ flow_name \in flows THEN 1 ELSE Cardinality(flows)
        after(st) == LogoutTimes(st, n, now)
    IN  IF n = 0
        THEN /\ sret' = Called("manager_logout", uid, FALSE)
             /\ UNCHANGED <<sessions, last_cleanup>>
             /\ SessFrame
        ELSE OnSession("manager_logout", uid, after)

\* AuthenticationManager.is_authenticated(uid), the value returned from the
\* session get_session hands out: session.get('authenticated', False)
IsAuthenticated(ss, uid) ==
    /\ UserKey(uid) \in DOMAIN ss
    /\ ss[UserKey(uid)].data["authenticated"] = "True"

NextAuth ==
    \/ \E d \in Deltas : SessTick(d)
    \/ \E name \in FlowNames : register_flow(name)
    \/ \E name \in FlowNames : flow_authenticate(name, TokenUser)
    \/ \E name \in FlowNames : AuthenticationManager_authenticate(name, TokenUser)
    \/ \E name \in FlowNames \cup {""} : AuthenticationManager_logout(TokenUser, name)

SpecAuth == InitStore /\ [][NextAuth]_vars

LoggedOut == sret.op = "manager_logout" /\ ~sret.raised

\* the headers prepare_request_headers(uid) returns
HeadersOf(ss, uid) ==
    PrepareHeaders(IF UserKey(uid) \in DOMAIN ss THEN ss[UserKey(uid)] ELSE NewStore(now), NoHeaders, now)

\* C40: after AuthenticationManager.logout(user_id), with or without a flow
\* name, registered or not, and whatever set of flows is registered,
\* is_authenticated(user_id) is False and prepare_request_headers(user_id)
\* carries no token-derived header.
C40_LogoutClearsAuthentication ==
    LoggedOut =>
        /\ ~IsAuthenticated(sessions, sret.user)
        /\ DOMAIN HeadersOf(sessions, sret.user) \subseteq {"Cookie"}

====
